---- MODULE Spec2Model ----
(***************************************************************************)
(* Model of the DataPlatform ingestion runtime.                            *)
(*                                                                         *)
(* Part I  - WorkerQueue: the bounded asyncio.Queue + worker pool +        *)
(*           sentinel shutdown shared by BaseStreamProducer,               *)
(*           BaseCacheClient and BaseTimeSeriesDB (src/core/interfaces).   *)
(* Part II - Connection pool of ClickHouseClient                           *)
(*           (src/providers/opensource/clickhouse.py).                     *)
(* Part III - Scheduler loops of SyncService and IndicatorService          *)
(*           (src/services/sync_service, src/services/indicator_service).  *)
(* Part IV - ClickHouseClient.query_candles over the candle tables.        *)
(* Part V  - Exchange stream clients: reader loop, event queue and         *)
(*           consumer workers (src/core/interfaces/market_data.py,         *)
(*           src/providers/*/websocket.py).                                *)
(* Part VI - The path of a trade from the client queue through             *)
(*           StreamProcessor.process_trade and DataValidator to the        *)
(*           latest_price key of the cache.                                *)
(* Part VII - The passes of IndicatorService over the candle series:       *)
(*           calculate_and_store_indicators, catch_up_indicators and       *)
(*           IndicatorPersistence.save_indicators.                         *)
(***************************************************************************)
EXTENDS Integers, Sequences, FiniteSets, TLC

(***************************************************************************)
(* Bounds of the model.                                                    *)
(***************************************************************************)
\* capacity of the stream and cache queues (STREAM_QUEUE_SIZE, CACHE_QUEUE_SIZE)
QueueSize == 2
\* capacity of the DB queue (DB_QUEUE_SIZE)
DbQueueSize == 1
\* largest number of worker tasks (settings.*_WORKERS ranges over 1..NumWorkers)
NumWorkers == 2
\* rows a DB worker accumulates before a flush (settings.DB_BATCH_SIZE)
BatchSize == 2
\* largest envelope handed to enqueue_trades
MaxRows == 2
\* number of enqueue_record / enqueue_set calls in one behaviour
MaxCalls == 4
\* number of enqueue_trades calls in one behaviour
MaxDbCalls == 2
\* time.time() advances in steps of TickStep seconds up to MaxTime
TickStep == 30
MaxTime == 60
\* connections in the pool (settings.CLICKHOUSE_POOL_SIZE)
PoolSize == 2
\* concurrent callers of store operations
NumCallers == 2
\* number of cycles a scheduler loop starts in one behaviour
MaxCycles == 2
\* interval_seconds of the scheduler loops and the longest cycle, in ticks
SyncInterval == 2
MaxElapsed == 5
\* the store's clock advances in steps of ClockStep seconds up to MaxClock
ClockStep == 30
MaxClock == 120
\* largest limit passed to query_candles
MaxLimit == 2
\* capacity of the event queue of a stream client (WS_QUEUE_MAX_SIZE)
WsQueueSize == 1
\* largest number of consumer tasks (WS_CONSUMER_WORKERS)
WsConsumerWorkers == 2
\* callbacks registered per event type
NumCallbacks == 2
\* messages a stream client receives in one behaviour
MaxEvents == 2
\* connection attempts of a stream client in one behaviour
MaxAttempts == 3
\* time.monotonic() advances in ticks up to MaxMono
MaxMono == 4
\* trades of one (exchange, symbol) received in one behaviour
MaxTrades == 2
\* enabled (exchange, symbol, timeframe) combinations of one pass
NumSeries == 2
\* orderbooks of one (exchange, symbol) processed in one behaviour
MaxBooks == 2
\* StreamProcessor(buffer_size=...): trades buffered before a flush
BufferSize == 2
\* valid trades a StreamProcessor buffers in one behaviour
MaxBuffered == 4

(***************************************************************************)
(* Program constants.                                                      *)
(***************************************************************************)
\* cutoff = now - 60
DropWindowSeconds == 60
\* "if drop_rate > 10:" of the stream queue, drops per second
StreamPanicRate == 10
\* "if drop_rate > 5:" of the DB queue
DbPanicRate == 5
\* "if drop_rate > 50:" of the cache queue
CacheWarnRate == 50
\* orderbook_sample_interval_s, in ticks of time.monotonic()
SampleInterval == 2
\* DataValidator(spike_threshold_pct=10.0)
SpikeThresholdPct == 10
\* "if 0 < time_diff < 1.0", in milliseconds
SpikeWindowMs == 1000
\* "now + timedelta(seconds=5)", in milliseconds
FutureSkewMs == 5000
\* settings.INDICATOR_SERVICE_MIN_CANDLES
MinCandles == 20
\* seconds of the TTL _write_cache asks for
IndicatorTtl == 60
\* "(now - last_backup).total_seconds() >= 1.0", in milliseconds
BackupIntervalMs == 1000

Kinds == {"stream", "cache", "db"}

\* self._SENTINEL = object(): a value no enqueued item equals
SENTINEL == [id |-> 0, rows |-> 0]

VARIABLES
    kind,              \* which of the three base classes this queue belongs to
    queue,             \* self._queue: FIFO contents
    dropped_count,     \* _dropped_count / _dropped_sets / _dropped_trades
    drop_rate_window,  \* _drop_rate_window / _trade_drop_rate_window
    now,               \* the last value read from time.time()
    pc,                \* position of each worker task in _worker()
    batch_trades,      \* DB worker: local list batch_trades (envelopes taken)
    handled,           \* ids passed to _send_impl / _set_impl / batch_trades.extend
    inserted,          \* id -> number of _insert_trades_impl calls that carried it
    close_pc,          \* position of close()
    sentinels_put,     \* sentinels close() has placed so far
    wait_idx,          \* index of the task close() is waiting for
    got_sentinel,      \* worker dequeued the sentinel
    cancelled,         \* worker was cancelled by close() after the timeout
    raised,            \* the handler raised inside this worker
    insert_failed,     \* some _insert_trades_impl call returned 0 after a store error
    n_calls,           \* number of enqueue calls made so far
    last_call,         \* the last enqueue call: argument, return value, put_nowait attempts
    pre_close,         \* ids queued before close() was called
    first_drop_at,     \* time of the first drop (-1: none yet)
    late_call,         \* an enqueue call was made after close() had been called
    drop_times,        \* the time of every item dropped so far, oldest first
    log_level,         \* level of the log record the last enqueue call emitted
    pool,              \* ClickHouseClient._pool: idle connections (FIFO)
    connected,         \* number of Client objects currently connected
    critical_logs,     \* number of logger.critical("Failed to recreate ...") records
    op_pc,             \* position of each caller inside a store operation
    op_kind,           \* which store operation the caller runs
    op_conn,           \* local variable conn of the operation (0: none)
    op_result,         \* how the last operation of the caller ended
    pool_size,         \* settings.CLICKHOUSE_POOL_SIZE
    drain_pc,          \* position of ClickHouseClient.close() after super().close()
    late_op,           \* a store operation was called after close() had been called
    svc,               \* which scheduler loop: "sync" or "indicator"
    running,           \* self.running
    svc_pc,            \* position of start()
    ex,                \* per exchange: position of sync_exchange / backfill_exchange
    detached,          \* exchange tasks still running after gather() raised
    db_state,          \* self.db: "new", "connected" or "closed"
    stop_pc,           \* position of a stop() call made from outside start()
    cycles,            \* number of cycles started
    elapsed,           \* elapsed measured at the end of the last cycle
    sleep_time,        \* sleep_time computed at the end of the last cycle
    exit_cause,        \* why start() left its try block
    clock,             \* the store's now(), in seconds
    candle_table,      \* timeframe table -> timestamps of the candles stored
    q_timeframe,       \* argument timeframe of the last query_candles call
    q_at,              \* value of now() during the last query_candles call
    q_result,          \* list returned by the last query_candles call
    ws_usage,          \* how the stream client is run
    ws_running,        \* self.running of the stream client
    ws_pc,             \* position of start()
    websocket,         \* local variable websocket of start() (0: none yet)
    self_websocket,    \* self.websocket (0: None)
    sock_open,         \* connections that are open
    attempts,          \* number of connect(...) calls made
    session_end,       \* "ended" since a session ended, "slept" once start() slept
    ws_stop_pc,        \* position of stop()
    stop_target,       \* the connection stop() closes
    ws_queue,          \* self._queue of the stream client
    consumer_tasks,    \* self._consumer_tasks: position of each _consume_queue task
    last_orderbook_time, \* self._last_orderbook_time
    mono,              \* time.monotonic()
    n_events,          \* messages received so far
    ws_last,           \* the last message received and what became of it
    accepted,          \* events put_nowait accepted into the queue
    callback_log,      \* callback invocations: event, callback, calling task
    trades,            \* the trades of one (exchange, symbol) in the order received
    tr_queue,          \* the client queue: ids of trades waiting for a consumer
    tr_lost,           \* trades dropped at a full queue or lost by a failed SET
    tr_consumer,       \* position of each consumer task inside process_trade
    last_prices,       \* validator.last_prices[symbol_key] and the trade it came from
    spike_count,       \* validator.spike_count
    invalid_count,     \* validator.invalid_count
    verdict,           \* per trade: what validate_trade made of it
    set_queue,         \* the cache queue: latest_price set operations, by trade
    set_worker,        \* position of each cache worker
    latest_price,      \* the trade whose value the key latest_price:... holds
    wall_now,          \* datetime.now(UTC), in milliseconds
    downstream,        \* what process_trade / process_orderbook handed on: event, destination
    books,             \* per orderbook processed: what validate_orderbook made of it
    last_orderbook_backup, \* self._last_orderbook_backup[symbol_key]
    ind_pass,          \* which pass runs: the cyclic one or the catch-up one
    calc_impl,         \* which IndicatorCalculator the pass calls into
    ind_pc,            \* position of the pass
    ind_series,        \* index of the series the pass is at
    ind_candles,       \* per series: len(candles) returned by query_candles
    ind_i,             \* index of the candle handed to the calculator
    ind_result,        \* per series: what the last calculation produced
    store_inserts,     \* insert_indicators calls issued: series and timestamp
    cache_sets,        \* indicator bundles accepted into the cache queue
    ind_errors,        \* exceptions logged by the pass and by the persistence
    trade_buffer,      \* StreamProcessor.trade_buffer: the rows of the one list object
    buffered,          \* number of valid trades appended to trade_buffer so far
    db_envelopes,      \* the DB queue as the processor's flushes fill it
    db_batch,          \* batch_trades of the DB worker that serves those flushes
    db_taken,          \* history: per envelope taken, the rows handed in and the rows found
    db_submitted,      \* history: the argument of each _insert_trades_impl call
    flush_dropped,     \* _dropped_trades as the processor's flushes raise it
    flush_pc,          \* "open", "closing" (close() flushed), "closed" (sentinel queued), "ended"
    producer,          \* KafkaStreamProducer.producer: "started" or "stopped"
    kafka_queue,       \* self._queue of the Kafka stream producer: record ids, 0 the sentinel
    kafka_worker,      \* per worker task: "get", "send" or "exited"
    kafka_item,        \* per worker task: the record it is sending
    kafka_pc,          \* close(): "open", "stop", "put", "wait", "closed"
    kafka_put,         \* sentinels close() has put
    kafka_records,     \* enqueue_record calls made
    kafka_early,       \* history: records queued before close() was called
    kafka_sends,       \* history: per _send_impl call, the record and the producer's state
    kafka_dropped      \* self._dropped_count

wqVars == <<kind, queue, dropped_count, drop_rate_window, now, pc, batch_trades,
            handled, inserted, close_pc, sentinels_put, wait_idx, got_sentinel,
            cancelled, raised, insert_failed, n_calls, last_call, pre_close,
            first_drop_at, late_call, drop_times, log_level>>
poolVars == <<pool, connected, critical_logs, op_pc, op_kind, op_conn, op_result,
              pool_size, drain_pc, late_op>>
svcVars == <<svc, running, svc_pc, ex, detached, db_state, stop_pc, cycles, elapsed,
             sleep_time, exit_cause>>
qryVars == <<clock, candle_table, q_timeframe, q_at, q_result>>
wsVars == <<ws_usage, ws_running, ws_pc, websocket, self_websocket, sock_open, attempts,
            session_end, ws_stop_pc, stop_target, ws_queue, consumer_tasks,
            last_orderbook_time, mono, n_events, ws_last, accepted, callback_log>>
\* the variables of the ingestion side (Part V onwards)
tradeVars == <<trades, tr_queue, tr_lost, tr_consumer, last_prices, spike_count,
               invalid_count, verdict, set_queue, set_worker, latest_price, wall_now,
               downstream, books, last_orderbook_backup>>
indVars == <<ind_pass, calc_impl, ind_pc, ind_series, ind_candles, ind_i, ind_result,
             store_inserts, cache_sets, ind_errors>>
flushVars == <<trade_buffer, buffered, db_envelopes, db_batch, db_taken, db_submitted,
               flush_dropped, flush_pc>>
kafkaVars == <<producer, kafka_queue, kafka_worker, kafka_item, kafka_pc, kafka_put,
               kafka_records, kafka_early, kafka_sends, kafka_dropped>>
ingestVars == <<wsVars, tradeVars, indVars, flushVars, kafkaVars>>
vars == <<wqVars, poolVars, svcVars, qryVars, ingestVars>>

\* what the queue actions leave alone, and what the pool actions leave alone
outsideQueue == <<poolVars, svcVars, qryVars, ingestVars>>
outsidePool == <<wqVars, svcVars, qryVars, ingestVars>>

\* the worker tasks started by connect(): self._worker_tasks
Workers == DOMAIN pc

(***************************************************************************)
(* Part I: WorkerQueue                                                     *)
(***************************************************************************)

RECURSIVE SumRows(_)
\* len(batch_trades) after batch_trades.extend(items) of each envelope
SumRows(s) == IF s = <<>> THEN 0 ELSE Head(s).rows + SumRows(Tail(s))

RECURSIVE Repeat(_, _)
\* [now] * count
Repeat(x, n) == IF n = 0 THEN <<>> ELSE <<x>> \o Repeat(x, n - 1)

\* variant: the timestamp at the cutoff itself is kept
TrimWindowInclusive(w, cutoff) == SelectSeq(w, LAMBDA t : t >= cutoff)

\* [t for t in window if t > cutoff]
TrimWindow(w, cutoff) == SelectSeq(w, LAMBDA t : t > cutoff)

\* asyncio.Queue(maxsize=settings.*_QUEUE_SIZE)
Capacity == IF kind = "db" THEN DbQueueSize ELSE QueueSize

\* variant: the capacity test is off by one
QueueFullOffByOne == Len(queue) > Capacity

\* put_nowait raises asyncio.QueueFull
QueueFull == Len(queue) >= Capacity

\* values time.time() can return at the next reading: the clock does not go back
Readings == {t \in now..MaxTime : (t - now) % TickStep = 0}

\* variant: the drop is counted but its timestamp is not appended to the window
TrackDropNoAppend(count) ==
    \E t \in Readings :
        /\ now' = t
        /\ dropped_count' = dropped_count + count
        /\ drop_rate_window' = TrimWindow(drop_rate_window, t - DropWindowSeconds)

\* the except asyncio.QueueFull branch: now = time.time(), count the drops,
\* extend the window and trim it to the last 60 seconds
TrackDrop(count) ==
    \E t \in Readings :
        /\ now' = t
        /\ dropped_count' = dropped_count + count
        /\ drop_rate_window' =
              TrimWindow(drop_rate_window \o Repeat(t, count), t - DropWindowSeconds)

NextId == n_calls + 1

\* "drop_rate > 10" read as "at or above"
RateAtOrAbove(n, rate) == n >= rate * DropWindowSeconds

\* drop_rate = len(window) / 60; "if drop_rate > 10:" (5 for the DB queue,
\* 50 for the cache queue)
RateAbove(n, rate) == n > rate * DropWindowSeconds

\* the log record of a drop that leaves n timestamps in the window
DropLogLevel(n) ==
    CASE kind = "stream" -> IF RateAbove(n, StreamPanicRate) THEN "error" ELSE "warning"
      [] kind = "db" -> IF RateAbove(n, DbPanicRate) THEN "error" ELSE "warning"
      [] kind = "cache" -> IF RateAbove(n, CacheWarnRate) THEN "warning" ELSE "none"

\* bookkeeping of one enqueue call; outcome is "queued", "dropped" or "empty"
LogCall(rows, ret, puts, outcome) ==
    /\ n_calls' = n_calls + 1
    /\ last_call' = [rows |-> rows, ret |-> ret, puts |-> puts]
    /\ pre_close' = IF outcome = "queued" /\ close_pc = "idle"
                        THEN pre_close \cup {NextId} ELSE pre_close
    /\ first_drop_at' = IF outcome = "dropped" /\ first_drop_at < 0
                            THEN now' ELSE first_drop_at
    /\ late_call' = (late_call \/ close_pc # "idle")
    /\ drop_times' = IF outcome = "dropped" THEN drop_times \o Repeat(now', rows)
                                              ELSE drop_times
    /\ log_level' = IF outcome = "dropped" THEN DropLogLevel(Len(drop_rate_window'))
                                             ELSE "none"
    /\ UNCHANGED insert_failed

enqLog == <<n_calls, last_call, pre_close, first_drop_at, late_call, drop_times, log_level>>
callLog == <<enqLog, insert_failed>>

WorkerFrame == UNCHANGED <<pc, batch_trades, handled, inserted, got_sentinel, cancelled, raised>>
CloseFrame == UNCHANGED <<close_pc, sentinels_put, wait_idx>>

\* BaseStreamProducer.enqueue_record
enqueue_record ==
    /\ kind = "stream"
    /\ n_calls < MaxCalls
    /\ IF ~QueueFull
          THEN /\ queue' = Append(queue, [id |-> NextId, rows |-> 1])
               /\ LogCall(1, "queued", 1, "queued")
               /\ UNCHANGED <<dropped_count, drop_rate_window, now>>
          ELSE /\ TrackDrop(1)
               /\ LogCall(1, "dropped", 1, "dropped")
               /\ UNCHANGED queue
    /\ UNCHANGED <<kind, outsideQueue>>
    /\ WorkerFrame /\ CloseFrame

\* BaseCacheClient.enqueue_set
enqueue_set ==
    /\ kind = "cache"
    /\ n_calls < MaxCalls
    /\ IF ~QueueFull
          THEN /\ queue' = Append(queue, [id |-> NextId, rows |-> 1])
               /\ LogCall(1, TRUE, 1, "queued")
               /\ UNCHANGED <<dropped_count, drop_rate_window, now>>
          ELSE /\ TrackDrop(1)
               /\ LogCall(1, FALSE, 1, "dropped")
               /\ UNCHANGED queue
    /\ UNCHANGED <<kind, outsideQueue>>
    /\ WorkerFrame /\ CloseFrame

\* variant: the drop counter counts envelopes instead of trades
DroppedTradesIncrementOne(n) == 1

\* count = len(trades); self._dropped_trades += count
DroppedTradesIncrement(n) == n

\* BaseTimeSeriesDB.enqueue_trades
enqueue_trades ==
    /\ kind = "db"
    /\ n_calls < MaxDbCalls
    /\ \E n \in 0..MaxRows :
          IF n = 0
             THEN /\ LogCall(0, 0, 0, "empty")
                  /\ UNCHANGED <<queue, dropped_count, drop_rate_window, now>>
             ELSE IF ~QueueFull
                     THEN /\ queue' = Append(queue, [id |-> NextId, rows |-> n])
                          /\ LogCall(n, n, 1, "queued")
                          /\ UNCHANGED <<dropped_count, drop_rate_window, now>>
                     ELSE /\ TrackDrop(DroppedTradesIncrement(n))
                          /\ LogCall(n, 0, 1, "dropped")
                          /\ UNCHANGED queue
    /\ UNCHANGED <<kind, outsideQueue>>
    /\ WorkerFrame /\ CloseFrame

(***************************************************************************)
(* Workers                                                                 *)
(***************************************************************************)

\* item = await self._queue.get(); sentinel: task_done(), break;
\* otherwise the item is handed to the handler (await self._send_impl(...))
QueueGet(w) ==
    /\ pc[w] = "get"
    /\ queue # <<>>
    /\ queue' = Tail(queue)
    /\ IF Head(queue) = SENTINEL
          THEN /\ pc' = [pc EXCEPT ![w] = "exited"]
               /\ got_sentinel' = [got_sentinel EXCEPT ![w] = TRUE]
               /\ UNCHANGED handled
          ELSE /\ pc' = [pc EXCEPT ![w] = "handler"]
               /\ handled' = handled \cup {Head(queue).id}
               /\ UNCHANGED got_sentinel
    /\ UNCHANGED <<kind, dropped_count, drop_rate_window, now, batch_trades, inserted,
                   cancelled, raised, callLog, outsideQueue>>
    /\ CloseFrame

\* the handler returned: self._queue.task_done(), next iteration of while True
HandlerReturn(w) ==
    /\ pc[w] = "handler"
    /\ pc' = [pc EXCEPT ![w] = "get"]
    /\ UNCHANGED <<kind, queue, dropped_count, drop_rate_window, now, batch_trades, handled,
                   inserted, got_sentinel, cancelled, raised, callLog, outsideQueue>>
    /\ CloseFrame

\* variant: the handler's exception ends the worker task
AfterHandlerErrorDies == "exited"

\* where the worker is after "except Exception: logger.error(...)"
AfterHandlerError == "get"

\* the handler raised: except Exception logs, the while loop goes on
HandlerRaise(w) ==
    /\ pc[w] = "handler"
    /\ pc' = [pc EXCEPT ![w] = AfterHandlerError]
    /\ raised' = [raised EXCEPT ![w] = TRUE]
    /\ UNCHANGED <<kind, queue, dropped_count, drop_rate_window, now, batch_trades, handled,
                   inserted, got_sentinel, cancelled, callLog, outsideQueue>>
    /\ CloseFrame

\* BaseStreamProducer._worker
StreamWorkerGet(w) == kind = "stream" /\ QueueGet(w)
StreamSendReturn(w) == kind = "stream" /\ HandlerReturn(w)
StreamSendRaise(w) == kind = "stream" /\ HandlerRaise(w)

\* BaseCacheClient._worker
CacheWorkerGet(w) == kind = "cache" /\ QueueGet(w)
CacheSetReturn(w) == kind = "cache" /\ HandlerReturn(w)
CacheSetRaise(w) == kind = "cache" /\ HandlerRaise(w)

\* a call await self._insert_trades_impl(batch_trades) is made with this batch
RecordInsert(batch) ==
    inserted' = [i \in DOMAIN inserted |->
                    IF \E k \in 1..Len(batch) : batch[k].id = i
                       THEN inserted[i] + 1 ELSE inserted[i]]

\* variant: the sentinel ends the worker without a last insert
FlushOnSentinelNever(batch) == FALSE

\* "if batch_trades:" before the insert made on the sentinel
FlushOnSentinel(batch) == batch # <<>>

\* where the DB worker is after the flush on the sentinel raised:
\* the exception leaves the try block before "break" and is caught by except Exception
AfterSentinelFlushError == "get"

\* BaseTimeSeriesDB._worker: one queue.get() and what follows up to the next await
DbWorkerGet(w) ==
    /\ kind = "db"
    /\ pc[w] = "get"
    /\ queue # <<>>
    /\ queue' = Tail(queue)
    /\ IF Head(queue) = SENTINEL
          THEN /\ got_sentinel' = [got_sentinel EXCEPT ![w] = TRUE]
               /\ UNCHANGED <<batch_trades, handled>>
               /\ IF FlushOnSentinel(batch_trades[w])
                     THEN /\ pc' = [pc EXCEPT ![w] = "sentinel_flush"]
                          /\ RecordInsert(batch_trades[w])
                     ELSE /\ pc' = [pc EXCEPT ![w] = "exited"]
                          /\ UNCHANGED inserted
          ELSE LET batch == Append(batch_trades[w], Head(queue)) IN
               /\ batch_trades' = [batch_trades EXCEPT ![w] = batch]
               /\ handled' = handled \cup {Head(queue).id}
               /\ UNCHANGED got_sentinel
               /\ IF SumRows(batch) >= BatchSize
                     THEN /\ pc' = [pc EXCEPT ![w] = "flush"]
                          /\ RecordInsert(batch)
                     ELSE /\ UNCHANGED <<pc, inserted>>
    /\ UNCHANGED <<kind, dropped_count, drop_rate_window, now, cancelled, raised, callLog, outsideQueue>>
    /\ CloseFrame

\* line 151-152: the size-triggered insert returned; batch_trades.clear()
DbFlushReturn(w) ==
    /\ kind = "db"
    /\ pc[w] = "flush"
    /\ pc' = [pc EXCEPT ![w] = "get"]
    /\ batch_trades' = [batch_trades EXCEPT ![w] = <<>>]
    /\ UNCHANGED <<kind, queue, dropped_count, drop_rate_window, now, handled, inserted,
                   got_sentinel, cancelled, raised, callLog, outsideQueue>>
    /\ CloseFrame

\* line 151: _insert_trades_impl returned 0 because the store raised and the
\* implementation swallowed the error (clickhouse.py 162-166); the worker does
\* not look at the value; batch_trades.clear()
DbFlushStoreError(w) ==
    /\ kind = "db"
    /\ pc[w] = "flush"
    /\ pc' = [pc EXCEPT ![w] = "get"]
    /\ batch_trades' = [batch_trades EXCEPT ![w] = <<>>]
    /\ insert_failed' = TRUE
    /\ UNCHANGED <<kind, queue, dropped_count, drop_rate_window, now, handled, inserted,
                   got_sentinel, cancelled, raised, enqLog, outsideQueue>>
    /\ CloseFrame

\* line 151 raised: except Exception logs; batch_trades is not cleared
DbFlushRaise(w) ==
    /\ kind = "db"
    /\ pc[w] = "flush"
    /\ pc' = [pc EXCEPT ![w] = AfterHandlerError]
    /\ raised' = [raised EXCEPT ![w] = TRUE]
    /\ UNCHANGED <<kind, queue, dropped_count, drop_rate_window, now, batch_trades, handled,
                   inserted, got_sentinel, cancelled, callLog, outsideQueue>>
    /\ CloseFrame

\* line 139-140: the flush on the sentinel returned; break
DbSentinelFlushReturn(w) ==
    /\ kind = "db"
    /\ pc[w] = "sentinel_flush"
    /\ pc' = [pc EXCEPT ![w] = "exited"]
    /\ UNCHANGED <<kind, queue, dropped_count, drop_rate_window, now, batch_trades, handled,
                   inserted, got_sentinel, cancelled, raised, callLog, outsideQueue>>
    /\ CloseFrame

\* line 139 raised: caught by except Exception at line 159, the loop continues
DbSentinelFlushRaise(w) ==
    /\ kind = "db"
    /\ pc[w] = "sentinel_flush"
    /\ pc' = [pc EXCEPT ![w] = AfterSentinelFlushError]
    /\ raised' = [raised EXCEPT ![w] = TRUE]
    /\ UNCHANGED <<kind, queue, dropped_count, drop_rate_window, now, batch_trades, handled,
                   inserted, got_sentinel, cancelled, callLog, outsideQueue>>
    /\ CloseFrame

\* line 157-158: the insert made by the CancelledError handler returned; break
DbCancelFlushReturn(w) ==
    /\ kind = "db"
    /\ pc[w] = "cancel_flush"
    /\ pc' = [pc EXCEPT ![w] = "exited"]
    /\ UNCHANGED <<kind, queue, dropped_count, drop_rate_window, now, batch_trades, handled,
                   inserted, got_sentinel, cancelled, raised, callLog, outsideQueue>>
    /\ CloseFrame

\* line 157 raised inside the except clause: the exception ends the task
DbCancelFlushRaise(w) ==
    /\ kind = "db"
    /\ pc[w] = "cancel_flush"
    /\ pc' = [pc EXCEPT ![w] = "failed"]
    /\ raised' = [raised EXCEPT ![w] = TRUE]
    /\ UNCHANGED <<kind, queue, dropped_count, drop_rate_window, now, batch_trades, handled,
                   inserted, got_sentinel, cancelled, callLog, outsideQueue>>
    /\ CloseFrame

(***************************************************************************)
(* close()                                                                 *)
(***************************************************************************)

\* close() is called
CloseCall ==
    /\ close_pc = "idle"
    /\ close_pc' = "put"
    /\ UNCHANGED <<kind, queue, dropped_count, drop_rate_window, now, callLog, sentinels_put,
                   wait_idx, outsideQueue>>
    /\ WorkerFrame

\* variant: the sentinel is placed at the head of the queue
ClosePutSentinelFirst ==
    /\ close_pc = "put"
    /\ ~QueueFull
    /\ queue' = <<SENTINEL>> \o queue
    /\ sentinels_put' = sentinels_put + 1
    /\ IF sentinels_put + 1 = Len(pc)
          THEN close_pc' = "wait" /\ wait_idx' = 1
          ELSE UNCHANGED <<close_pc, wait_idx>>
    /\ UNCHANGED <<kind, dropped_count, drop_rate_window, now, callLog, outsideQueue>>
    /\ WorkerFrame

\* for _ in self._worker_tasks: await self._queue.put(self._SENTINEL)
\* (Queue.put waits while the queue is full)
ClosePutSentinel ==
    /\ close_pc = "put"
    /\ ~QueueFull
    /\ queue' = Append(queue, SENTINEL)
    /\ sentinels_put' = sentinels_put + 1
    /\ IF sentinels_put + 1 = Len(pc)
          THEN close_pc' = "wait" /\ wait_idx' = 1
          ELSE UNCHANGED <<close_pc, wait_idx>>
    /\ UNCHANGED <<kind, dropped_count, drop_rate_window, now, callLog, outsideQueue>>
    /\ WorkerFrame

\* await asyncio.wait_for(task, timeout): the task is done, go on to the next one
CloseJoin ==
    /\ close_pc = "wait"
    /\ pc[wait_idx] = "exited"
    /\ IF wait_idx = Len(pc)
          THEN close_pc' = "returned" /\ UNCHANGED wait_idx
          ELSE wait_idx' = wait_idx + 1 /\ UNCHANGED close_pc
    /\ UNCHANGED <<kind, queue, dropped_count, drop_rate_window, now, callLog, sentinels_put,
                   outsideQueue>>
    /\ WorkerFrame

\* the awaited task ended with an exception: wait_for re-raises it out of close()
CloseRaise ==
    /\ close_pc = "wait"
    /\ pc[wait_idx] = "failed"
    /\ close_pc' = "raised"
    /\ UNCHANGED <<kind, queue, dropped_count, drop_rate_window, now, callLog, sentinels_put,
                   wait_idx, outsideQueue>>
    /\ WorkerFrame

\* stream/cache worker: except asyncio.CancelledError: break
WorkerCancelled(w) ==
    /\ pc' = [pc EXCEPT ![w] = "exited"]
    /\ UNCHANGED inserted

\* DB worker: except asyncio.CancelledError: if batch_trades: await insert; break
DbWorkerCancelled(w) ==
    IF batch_trades[w] # <<>>
       THEN /\ pc' = [pc EXCEPT ![w] = "cancel_flush"]
            /\ RecordInsert(batch_trades[w])
       ELSE /\ pc' = [pc EXCEPT ![w] = "exited"]
            /\ UNCHANGED inserted

\* the timeout of wait_for expired: the task is cancelled (a CancelledError is
\* thrown into the worker at its current await)
CloseTimeout ==
    /\ close_pc = "wait"
    /\ pc[wait_idx] \in {"get", "handler", "flush", "sentinel_flush"}
    /\ cancelled' = [cancelled EXCEPT ![wait_idx] = TRUE]
    /\ IF kind = "db" THEN DbWorkerCancelled(wait_idx) ELSE WorkerCancelled(wait_idx)
    /\ UNCHANGED <<kind, queue, dropped_count, drop_rate_window, now, callLog, batch_trades,
                   handled, got_sentinel, raised, outsideQueue>>
    /\ CloseFrame

(***************************************************************************)
(* Part II: ClickHouseClient connection pool                               *)
(***************************************************************************)

Callers == 1..NumCallers

\* the store operations that go through the pool
OpKinds == {"insert_trades", "query", "insert_orderbooks", "insert_candles",
            "query_candles", "insert_indicators"}

\* operations that return 0 on an empty argument before touching the pool
EarlyReturnOps == {"insert_trades", "insert_orderbooks", "insert_candles", "insert_indicators"}

NoConn == [origin |-> "none", failed |-> FALSE, open |-> FALSE]

\* a Client returned by _create_connection()
NewConn(origin) == [origin |-> origin, failed |-> FALSE, open |-> TRUE]

\* state after ClickHouseClient.connect(): pool_size connections in the pool
PoolInit ==
    /\ \E n \in 1..PoolSize :
          /\ pool_size = n
          /\ pool = [i \in 1..n |-> NewConn("original")]
          /\ connected = n
    /\ drain_pc = "loop"
    /\ late_op = FALSE
    /\ critical_logs = 0
    /\ op_pc = [c \in Callers |-> "idle"]
    /\ op_kind = [c \in Callers |-> "none"]
    /\ op_conn = [c \in Callers |-> NoConn]
    /\ op_result = [c \in Callers |-> "none"]

\* a store operation is called; "if not candles: return 0" and the like return
\* at once; otherwise the caller goes on to "conn = await self._pool.get()"
\* ("if not self._pool" is false for every asyncio.Queue object)
StartOp(c) ==
    /\ op_pc[c] = "idle"
    /\ \E k \in OpKinds, empty \in BOOLEAN :
          /\ op_kind' = [op_kind EXCEPT ![c] = k]
          /\ IF empty /\ k \in EarlyReturnOps
                THEN /\ op_result' = [op_result EXCEPT ![c] = "zero"]
                     /\ UNCHANGED op_pc
                ELSE /\ op_result' = [op_result EXCEPT ![c] = "none"]
                     /\ op_pc' = [op_pc EXCEPT ![c] = "acquire"]
    /\ late_op' = (late_op \/ close_pc # "idle")
    /\ UNCHANGED <<pool, connected, critical_logs, op_conn, outsidePool, pool_size, drain_pc>>

\* variant: get() hands out the connection and leaves it in the pool as well
PoolAfterGetKeeps == pool

\* the pool after "conn = await self._pool.get()"
PoolAfterGet == Tail(pool)

\* conn = await self._pool.get(): waits while the pool is empty
Acquire(c) ==
    /\ op_pc[c] = "acquire"
    /\ pool # <<>>
    /\ op_conn' = [op_conn EXCEPT ![c] = Head(pool)]
    /\ pool' = PoolAfterGet
    /\ op_pc' = [op_pc EXCEPT ![c] = "execute"]
    /\ UNCHANGED <<connected, critical_logs, op_kind, op_result, outsidePool, pool_size, drain_pc, late_op>>

\* the connection put back by "await self._pool.put(conn)" when not poisoned
ReturnedConn(conn) == conn

\* conn.execute returned: the result is returned, finally puts conn back
ExecuteReturn(c) ==
    /\ op_pc[c] = "execute"
    /\ pool' = Append(pool, ReturnedConn(op_conn[c]))
    /\ op_conn' = [op_conn EXCEPT ![c] = NoConn]
    /\ op_pc' = [op_pc EXCEPT ![c] = "idle"]
    /\ op_result' = [op_result EXCEPT ![c] = "ok"]
    /\ UNCHANGED <<connected, critical_logs, op_kind, outsidePool, pool_size, drain_pc, late_op>>

\* the try block raised: poisoned = True, conn.disconnect(), then
\* "conn = await self._create_connection()" is awaited
ExecuteRaise(c) ==
    /\ op_pc[c] = "execute"
    /\ op_conn' = [op_conn EXCEPT ![c] = [@ EXCEPT !.failed = TRUE, !.open = FALSE]]
    /\ connected' = connected - 1
    /\ op_pc' = [op_pc EXCEPT ![c] = "recreate"]
    /\ UNCHANGED <<pool, critical_logs, op_kind, op_result, outsidePool, pool_size, drain_pc, late_op>>

\* variant: every operation turns a store error into the return value 0
FailureResultZero(k) == "zero"

\* how an operation that failed in the store ends for its caller:
\* _insert_trades_impl returns 0, every other operation re-raises
FailureResult(k) == IF k = "insert_trades" THEN "zero" ELSE "error"

\* variant: the poisoned connection itself is put back
ReplacementForReuse(conn) == conn

\* conn = await self._create_connection(): conn now names the new connection
ReplacementFor(conn) == NewConn("replacement")

\* _create_connection() returned: the new connection is put into the pool
RecreateReturn(c) ==
    /\ op_pc[c] = "recreate"
    /\ pool' = Append(pool, ReplacementFor(op_conn[c]))
    /\ connected' = connected + 1
    /\ op_conn' = [op_conn EXCEPT ![c] = NoConn]
    /\ op_pc' = [op_pc EXCEPT ![c] = "idle"]
    /\ op_result' = [op_result EXCEPT ![c] = FailureResult(op_kind[c])]
    /\ UNCHANGED <<critical_logs, op_kind, outsidePool, pool_size, drain_pc, late_op>>

\* variant: the broken connection is put back after the failed re-creation
PoolAfterFailedRecreateKeeps(c) == Append(pool, op_conn[c])

\* what the pool holds after _create_connection() raised: nothing is put back
PoolAfterFailedRecreate(c) == pool

\* _create_connection() raised: logger.critical, the connection is not put back
RecreateRaise(c) ==
    /\ op_pc[c] = "recreate"
    /\ critical_logs' = critical_logs + 1
    /\ pool' = PoolAfterFailedRecreate(c)
    /\ op_conn' = [op_conn EXCEPT ![c] = NoConn]
    /\ op_pc' = [op_pc EXCEPT ![c] = "idle"]
    /\ op_result' = [op_result EXCEPT ![c] = FailureResult(op_kind[c])]
    /\ UNCHANGED <<connected, op_kind, outsidePool, pool_size, drain_pc, late_op>>

\* ClickHouseClient.close(), after "await super().close()" has returned:
\* one turn of "while not self._pool.empty()": get a connection, disconnect it
PoolDrainOne ==
    /\ close_pc = "returned"
    /\ drain_pc = "loop"
    /\ pool # <<>>
    /\ pool' = Tail(pool)
    /\ connected' = connected - 1
    /\ UNCHANGED <<critical_logs, op_pc, op_kind, op_conn, op_result, outsidePool, pool_size,
                   drain_pc, late_op>>

\* the pool is empty (or the get timed out after an operation took the last
\* connection): the loop ends and close() returns
PoolDrainEnd ==
    /\ close_pc = "returned"
    /\ drain_pc = "loop"
    /\ pool = <<>>
    /\ drain_pc' = "returned"
    /\ UNCHANGED <<pool, connected, critical_logs, op_pc, op_kind, op_conn, op_result,
                   outsidePool, pool_size, late_op>>

(***************************************************************************)
(* Part III: SyncService and IndicatorService scheduler loops              *)
(***************************************************************************)

\* get_enabled_exchanges(): the enabled exchanges of exchanges.yaml
Exchanges == {"binance", "coinbase"}

\* config.symbol_list of an exchange, in order
SymbolList == <<"BTC/USDT", "ETH/USDT">>

\* self.timeframes = settings.SYNC_TIMEFRAMES, in order
SyncTimeframes == <<"1m", "5m">>

\* an exchange task that has not been started, and one at its first statement
\* (made: REST clients this task has created; closes: api.close() calls it made)
\* successes, failures: the counters of sync_exchange / backfill_exchange;
\* sym_err: a fetch or insert of the symbol being synced raised; errs: symbol
\* syncs of this task in which one did
ExIdle == [pc |-> "idle", sym |-> 1, tf |-> 1, made |-> 0, closes |-> 0,
           successes |-> 0, failures |-> 0, sym_err |-> FALSE, errs |-> 0]
ExStart == [pc |-> "create", sym |-> 1, tf |-> 1, made |-> 0, closes |-> 0,
            successes |-> 0, failures |-> 0, sym_err |-> FALSE, errs |-> 0]

\* exchange tasks that have not ended
ExRunning == {e \in Exchanges : ex[e].pc \in {"create", "fetch", "insert", "close"}}

\* the service object after __init__ and the call of start(): self.running =
\* True, start() is at "await self.db.connect()"
SvcInit ==
    /\ running = TRUE
    /\ svc_pc = "connect"
    /\ ex = [e \in Exchanges |-> ExIdle]
    /\ detached = 0
    /\ db_state = "new"
    /\ stop_pc = "idle"
    /\ cycles = 0
    /\ elapsed = 0
    /\ sleep_time = 0
    /\ exit_cause = "none"

svcFrame == UNCHANGED <<wqVars, poolVars, qryVars, ingestVars>>

\* await self.db.connect() returned; initial_backfill() (sync) or the initial
\* delay and catch_up_indicators() (indicator) is entered
SvcConnectReturn ==
    /\ svc_pc = "connect"
    /\ db_state' = "connected"
    /\ svc_pc' = "backfill"
    /\ ex' = IF svc = "sync" THEN [e \in Exchanges |-> ExStart] ELSE ex
    /\ UNCHANGED <<svc, running, detached, stop_pc, cycles, elapsed, sleep_time, exit_cause>>
    /\ svcFrame

\* await self.db.connect() raised: except Exception logs, finally follows
SvcConnectRaise ==
    /\ svc_pc = "connect"
    /\ svc_pc' = "stopping"
    /\ exit_cause' = "connect_error"
    /\ UNCHANGED <<svc, running, ex, detached, db_state, stop_pc, cycles, elapsed, sleep_time>>
    /\ svcFrame

\* "except Exception as e: logger.error(...)" of _sync_symbol: the error of one
\* timeframe is logged and not re-raised
SyncError(x) == [x EXCEPT !.sym_err = TRUE]

\* _sync_symbol returned (it raises nothing, every error of a timeframe was
\* caught inside it): "successes += 1"; "failures += 1" stands in an except
\* clause that no exception reaches
SymbolSynced(x) ==
    [x EXCEPT !.successes = @ + 1,
              !.errs = IF x.sym_err THEN @ + 1 ELSE @,
              !.sym_err = FALSE]

\* variant: every symbol is synced on a client of its own, as
\* sync_exchange_klines does
ExAdvanceOwnClient(x) ==
    IF x.tf < Len(SyncTimeframes)
       THEN [x EXCEPT !.pc = "fetch", !.tf = x.tf + 1]
       ELSE IF x.sym < Len(SymbolList)
               THEN [SymbolSynced(x) EXCEPT !.pc = "create", !.sym = x.sym + 1, !.tf = 1,
                                            !.closes = x.closes + 1]
               ELSE [SymbolSynced(x) EXCEPT !.pc = "close"]

\* position of _sync_symbol after the try block of one timeframe ended (by
\* its last statement, by "continue" or in "except Exception"): the next
\* timeframe, the next symbol, or "finally: await api.close()"
ExAdvance(x) ==
    IF x.tf < Len(SyncTimeframes)
       THEN [x EXCEPT !.pc = "fetch", !.tf = x.tf + 1]
       ELSE IF x.sym < Len(SymbolList)
               THEN [SymbolSynced(x) EXCEPT !.pc = "fetch", !.sym = x.sym + 1, !.tf = 1]
               ELSE [SymbolSynced(x) EXCEPT !.pc = "close"]

exFrame == UNCHANGED <<svc, running, svc_pc, detached, db_state, stop_pc, cycles, elapsed,
                       sleep_time, exit_cause>>

\* api = create_exchange_rest_api(exchange_name) returned
ExCreateReturn(e) ==
    /\ ex[e].pc = "create"
    /\ ex' = [ex EXCEPT ![e] = [@ EXCEPT !.pc = "fetch", !.made = @ + 1]]
    /\ exFrame /\ svcFrame

\* create_exchange_rest_api raised: the statement is outside every try block
\* of sync_exchange, the task ends with the exception
AfterCreateError == "failed"

ExCreateRaise(e) ==
    /\ ex[e].pc = "create"
    /\ ex' = [ex EXCEPT ![e] = [@ EXCEPT !.pc = AfterCreateError]]
    /\ exFrame /\ svcFrame

\* candles = await api.fetch_latest_klines(...) returned; "if not candles: continue"
ExFetchReturn(e) ==
    /\ ex[e].pc = "fetch"
    /\ \E empty \in BOOLEAN :
          ex' = [ex EXCEPT ![e] = IF empty THEN ExAdvance(@) ELSE [@ EXCEPT !.pc = "insert"]]
    /\ exFrame /\ svcFrame

\* fetch_latest_klines raised: except Exception logs, the for loop goes on
ExFetchRaise(e) ==
    /\ ex[e].pc = "fetch"
    /\ ex' = [ex EXCEPT ![e] = ExAdvance(SyncError(@))]
    /\ exFrame /\ svcFrame

\* await self.db.insert_candles(candle_dicts, timeframe) returned; on a closed
\* client the call waits for a connection that never comes
ExInsertReturn(e) ==
    /\ ex[e].pc = "insert"
    /\ db_state = "connected"
    /\ ex' = [ex EXCEPT ![e] = ExAdvance(@)]
    /\ exFrame /\ svcFrame

\* insert_candles raised: except Exception logs, the for loop goes on
ExInsertRaise(e) ==
    /\ ex[e].pc = "insert"
    /\ db_state = "connected"
    /\ ex' = [ex EXCEPT ![e] = ExAdvance(SyncError(@))]
    /\ exFrame /\ svcFrame

\* finally: await api.close() returned; return successes, failures
ExCloseReturn(e) ==
    /\ ex[e].pc = "close"
    /\ ex' = [ex EXCEPT ![e] = [@ EXCEPT !.pc = "done", !.closes = @ + 1]]
    /\ exFrame /\ svcFrame

\* await api.close() raised inside finally: the task ends with the exception
ExCloseRaise(e) ==
    /\ ex[e].pc = "close"
    /\ ex' = [ex EXCEPT ![e] = [@ EXCEPT !.pc = "failed", !.closes = @ + 1]]
    /\ exFrame /\ svcFrame

\* variant: the loop always sleeps a whole interval
SleepTimeWholeInterval(el) == SyncInterval

\* sleep_time = max(0, self.interval_seconds - elapsed)
SleepTime(el) == IF SyncInterval - el > 0 THEN SyncInterval - el ELSE 0

\* initial_backfill(): asyncio.gather returned, every exchange task is done
BackfillReturn ==
    /\ svc = "sync"
    /\ svc_pc = "backfill"
    /\ \A e \in Exchanges : ex[e].pc = "done"
    /\ svc_pc' = "loop"
    /\ UNCHANGED <<svc, running, ex, detached, db_state, stop_pc, cycles, elapsed, sleep_time,
                   exit_cause>>
    /\ svcFrame

\* where start() goes when initial_backfill() raised: the call is inside the
\* outer try only, "except Exception" of start() logs and finally follows
AfterBackfillError == "stopping"

\* initial_backfill(): gather re-raises the exception of the first task that
\* failed; the other tasks keep running
BackfillRaise ==
    /\ svc = "sync"
    /\ svc_pc = "backfill"
    /\ \E e \in Exchanges : ex[e].pc = "failed"
    /\ svc_pc' = AfterBackfillError
    /\ exit_cause' = "backfill_error"
    /\ UNCHANGED <<svc, running, ex, detached, db_state, stop_pc, cycles, elapsed, sleep_time>>
    /\ svcFrame

\* indicator service: the initial delay and catch_up_indicators() returned
CatchUpReturn ==
    /\ svc = "indicator"
    /\ svc_pc = "backfill"
    /\ svc_pc' = "loop"
    /\ UNCHANGED <<svc, running, ex, detached, db_state, stop_pc, cycles, elapsed, sleep_time,
                   exit_cause>>
    /\ svcFrame

\* indicator service: catch_up_indicators() raised
CatchUpRaise ==
    /\ svc = "indicator"
    /\ svc_pc = "backfill"
    /\ svc_pc' = "stopping"
    /\ exit_cause' = "backfill_error"
    /\ UNCHANGED <<svc, running, ex, detached, db_state, stop_pc, cycles, elapsed, sleep_time>>
    /\ svcFrame

\* "while self.running:" is true: start_time is read and the cycle begins;
\* exchange tasks of an earlier cycle that are still running go on detached
CycleStart ==
    /\ svc_pc = "loop"
    /\ running
    /\ cycles < MaxCycles
    /\ cycles' = cycles + 1
    /\ svc_pc' = "cycle"
    /\ IF svc = "sync"
          THEN /\ ex' = [e \in Exchanges |-> ExStart]
               /\ detached' = detached + Cardinality(ExRunning)
          ELSE UNCHANGED <<ex, detached>>
    /\ UNCHANGED <<svc, running, db_state, stop_pc, elapsed, sleep_time, exit_cause>>
    /\ svcFrame

\* "while self.running:" is false: the loop is left, finally follows
LoopExit ==
    /\ svc_pc = "loop"
    /\ ~running
    /\ svc_pc' = "stopping"
    /\ exit_cause' = "stop"
    /\ UNCHANGED <<svc, running, ex, detached, db_state, stop_pc, cycles, elapsed, sleep_time>>
    /\ svcFrame

\* the cycle has ended, normally or in "except Exception": elapsed is
\* measured, sleep_time computed, "if sleep_time > 0: await asyncio.sleep(...)"
AfterCycle ==
    /\ \E el \in 0..MaxElapsed :
          /\ elapsed' = el
          /\ sleep_time' = SleepTime(el)
          /\ svc_pc' = IF SleepTime(el) > 0 THEN "sleep" ELSE "loop"
    /\ UNCHANGED <<svc, running, ex, detached, db_state, stop_pc, cycles, exit_cause>>
    /\ svcFrame

\* sync_all_exchanges(): gather returned, every exchange task is done
CycleReturn ==
    /\ svc = "sync"
    /\ svc_pc = "cycle"
    /\ \A e \in Exchanges : ex[e].pc = "done"
    /\ AfterCycle

\* sync_all_exchanges(): gather re-raised the exception of a failed task;
\* "except Exception" inside the loop logs it
CycleRaise ==
    /\ svc = "sync"
    /\ svc_pc = "cycle"
    /\ \E e \in Exchanges : ex[e].pc = "failed"
    /\ AfterCycle

\* calculate_and_store_indicators() returned, or raised and "except Exception"
\* logged it
IndicatorCycleEnd ==
    /\ svc = "indicator"
    /\ svc_pc = "cycle"
    /\ AfterCycle

\* await asyncio.sleep(sleep_time) returned
SleepReturn ==
    /\ svc_pc = "sleep"
    /\ svc_pc' = "loop"
    /\ UNCHANGED <<svc, running, ex, detached, db_state, stop_pc, cycles, elapsed, sleep_time,
                   exit_cause>>
    /\ svcFrame

\* finally: await self.stop(): self.running = False, await self.db.close()
FinallyStop ==
    /\ svc_pc = "stopping"
    /\ running' = FALSE
    /\ db_state' = "closed"
    /\ svc_pc' = "done"
    /\ UNCHANGED <<svc, ex, detached, stop_pc, cycles, elapsed, sleep_time, exit_cause>>
    /\ svcFrame

\* SIGINT / SIGTERM: handler sets service.running = False
SignalHandler ==
    /\ running
    /\ svc_pc \in {"connect", "backfill", "loop", "cycle", "sleep"}
    /\ running' = FALSE
    /\ UNCHANGED <<svc, svc_pc, ex, detached, db_state, stop_pc, cycles, elapsed, sleep_time,
                   exit_cause>>
    /\ svcFrame

\* stop() is called by another task while start() runs: self.running = False,
\* then it goes on to "await self.db.close()"
StopCall ==
    /\ stop_pc = "idle"
    /\ svc_pc \in {"backfill", "loop", "cycle", "sleep"}
    /\ running' = FALSE
    /\ stop_pc' = "close"
    /\ UNCHANGED <<svc, svc_pc, ex, detached, db_state, cycles, elapsed, sleep_time, exit_cause>>
    /\ svcFrame

\* self.db after "await self.db.close()" in stop()
StoreAfterStop == "closed"

\* stop(): await self.db.close() returned
StopClose ==
    /\ stop_pc = "close"
    /\ db_state' = StoreAfterStop
    /\ stop_pc' = "done"
    /\ UNCHANGED <<svc, running, svc_pc, ex, detached, cycles, elapsed, sleep_time, exit_cause>>
    /\ svcFrame

\* an exchange task that gather no longer waits for comes to its end
DetachedEnds ==
    /\ detached > 0
    /\ detached' = detached - 1
    /\ UNCHANGED <<svc, running, svc_pc, ex, db_state, stop_pc, cycles, elapsed, sleep_time,
                   exit_cause>>
    /\ svcFrame

(***************************************************************************)
(* Part IV: ClickHouseClient.query_candles                                 *)
(***************************************************************************)

\* the tables of table_mapping
CandleTables == {"candles_1m", "candles_5m", "candles_1h"}

\* timeframes a caller may ask for; "15m" is not in table_mapping
QueryTimeframes == {"1m", "5m", "15m", "1h"}

\* length of one interval of a timeframe, in seconds
TimeframeSeconds(tf) ==
    CASE tf = "1m" -> 60
      [] tf = "5m" -> 300
      [] tf = "15m" -> 900
      [] tf = "1h" -> 3600

\* table = table_mapping.get(timeframe, "candles_1m")
TableOf(tf) ==
    CASE tf = "1m" -> "candles_1m"
      [] tf = "5m" -> "candles_5m"
      [] tf = "1h" -> "candles_1h"
      [] OTHER -> "candles_1m"

\* start of the interval of timeframe tf that contains time t
StartOfInterval(tf, t) == t - (t % TimeframeSeconds(tf))

\* toStartOfMinute(now())
StartOfMinute(t) == t - (t % 60)

\* the bound of "AND timestamp < toStartOfMinute(now())", whatever the timeframe
ClosedBound(tf, t) == StartOfMinute(t)

RECURSIVE SortDesc(_)
\* ORDER BY timestamp DESC
SortDesc(S) ==
    IF S = {} THEN <<>>
    ELSE LET m == CHOOSE x \in S : \A y \in S : y <= x
         IN <<m>> \o SortDesc(S \ {m})

\* "for row in reversed(result)"
Reversed(s) == [i \in 1..Len(s) |-> s[Len(s) + 1 - i]]

\* the rows of the query: WHERE ... ORDER BY timestamp DESC LIMIT limit
QueryRows(tf, limit, t) ==
    LET rows == SortDesc({ts \in candle_table[TableOf(tf)] : ts < ClosedBound(tf, t)})
    IN SubSeq(rows, 1, IF Len(rows) < limit THEN Len(rows) ELSE limit)

QueryInit ==
    /\ clock = 0
    /\ candle_table = [tb \in CandleTables |-> {}]
    /\ q_timeframe = "none"
    /\ q_at = 0
    /\ q_result = <<>>

qryFrame == UNCHANGED <<wqVars, poolVars, svcVars, ingestVars>>

\* time passes in the store
ClockAdvance ==
    /\ clock + ClockStep <= MaxClock
    /\ clock' = clock + ClockStep
    /\ UNCHANGED <<candle_table, q_timeframe, q_at, q_result>>
    /\ qryFrame

\* insert_candles(candles, timeframe) with the latest candle of the exchange,
\* the one whose interval contains now (fetch_ohlcv returns it last)
InsertLatestCandle ==
    /\ \E tf \in {"1m", "5m", "1h"} :
          candle_table' = [candle_table EXCEPT
                              ![TableOf(tf)] = @ \cup {StartOfInterval(tf, clock)}]
    /\ UNCHANGED <<clock, q_timeframe, q_at, q_result>>
    /\ qryFrame

\* query_candles(exchange, symbol, timeframe, limit)
query_candles ==
    /\ \E tf \in QueryTimeframes, limit \in 1..MaxLimit :
          /\ q_timeframe' = tf
          /\ q_result' = Reversed(QueryRows(tf, limit, clock))
    /\ q_at' = clock
    /\ UNCHANGED <<clock, candle_table>>
    /\ qryFrame

(***************************************************************************)
(* Part V: exchange stream clients (reader loop, queue, consumer workers)  *)
(***************************************************************************)

\* self.symbols of the client; the exchange of a client is fixed, so a symbol
\* stands for the key f"{exchange}:{symbol}"
WsSymbols == {"BTCUSDT", "ETHUSDT"}

\* what a received message parses to: a trade, a depth update, anything else
MsgTypes == {"trade", "orderbook", "other"}

\* entries of callbacks_trade and of callbacks_orderbook
Callbacks == 1..NumCallbacks

\* how the client is run: by main() of the ingestion service, as the class
\* docstring has it (connect, start_consumer, start), or the client class of
\* services/market_data_ingestion/websocket_client.py
WsUsages == {"ingestion", "standalone", "legacy"}

NoEvent == [id |-> 0, type |-> "none", key |-> "none", at |-> 0]

\* a consumer task waiting in "await queue.get()"
ConsumerIdle == [pc |-> "get", ev |-> NoEvent, cb |-> 0]

\* the client after __init__, on_trade / on_orderbook and connect()
WsInit ==
    /\ ws_running = FALSE
    /\ ws_pc = "idle"
    /\ websocket = 0
    /\ self_websocket = 0
    /\ sock_open = {}
    /\ attempts = 0
    /\ session_end = "none"
    /\ ws_stop_pc = "idle"
    /\ stop_target = 0
    /\ ws_queue = <<>>
    /\ consumer_tasks = <<>>
    /\ last_orderbook_time = [k \in WsSymbols |-> 0]
    /\ mono = 0
    /\ n_events = 0
    /\ ws_last = [ev |-> NoEvent, outcome |-> "none"]
    /\ accepted = {}
    /\ callback_log = {}

\* a client of the ingestion service that has not been started
WsIdle == ws_usage = "ingestion" /\ WsInit

wsFrame ==
    UNCHANGED <<wqVars, poolVars, svcVars, qryVars, tradeVars, indVars, flushVars, kafkaVars>>

\* start_consumer(): consumer_workers tasks running _consume_queue are created
start_consumer ==
    /\ ws_usage = "standalone"
    /\ ws_pc = "idle"
    /\ consumer_tasks = <<>>
    /\ \E n \in 1..WsConsumerWorkers : consumer_tasks' = [i \in 1..n |-> ConsumerIdle]
    /\ UNCHANGED <<ws_usage, ws_running, ws_pc, websocket, self_websocket, sock_open, attempts,
                   session_end, ws_stop_pc, stop_target, ws_queue, last_orderbook_time, mono,
                   n_events, ws_last, accepted, callback_log>>
    /\ wsFrame

\* start() is called: self.running = True. main() calls it right after
\* connect(); the documented use calls start_consumer() first
WsStart ==
    /\ ws_pc = "idle"
    /\ ws_usage = "standalone" => consumer_tasks # <<>>
    /\ ws_running' = TRUE
    /\ ws_pc' = "while"
    /\ UNCHANGED <<ws_usage, websocket, self_websocket, sock_open, attempts, session_end,
                   ws_stop_pc, stop_target, ws_queue, consumer_tasks, last_orderbook_time, mono,
                   n_events, ws_last, accepted, callback_log>>
    /\ wsFrame

\* "while self.running:" is true: connect(url) is entered
WsLoopConnect ==
    /\ ws_pc = "while"
    /\ ws_running
    /\ attempts < MaxAttempts
    /\ attempts' = attempts + 1
    /\ ws_pc' = "connecting"
    /\ UNCHANGED <<ws_usage, ws_running, websocket, self_websocket, sock_open, session_end,
                   ws_stop_pc, stop_target, ws_queue, consumer_tasks, last_orderbook_time, mono,
                   n_events, ws_last, accepted, callback_log>>
    /\ wsFrame

\* "while self.running:" is false: start() returns
WsLoopExit ==
    /\ ws_pc = "while"
    /\ ~ws_running
    /\ ws_pc' = "returned"
    /\ UNCHANGED <<ws_usage, ws_running, websocket, self_websocket, sock_open, attempts,
                   session_end, ws_stop_pc, stop_target, ws_queue, consumer_tasks,
                   last_orderbook_time, mono, n_events, ws_last, accepted, callback_log>>
    /\ wsFrame

\* "async with connect(...) as websocket" is entered (and the subscriptions
\* are sent): self.websocket = websocket, "async for message in websocket"
WsConnectReturn ==
    /\ ws_pc = "connecting"
    /\ websocket' = attempts
    /\ self_websocket' = IF ws_usage = "legacy" THEN self_websocket ELSE attempts
    /\ sock_open' = sock_open \cup {attempts}
    /\ ws_pc' = "reading"
    /\ UNCHANGED <<ws_usage, ws_running, attempts, session_end, ws_stop_pc, stop_target,
                   ws_queue, consumer_tasks, last_orderbook_time, mono, n_events, ws_last,
                   accepted, callback_log>>
    /\ wsFrame

\* where start() goes in "except Exception": "if self.running: await
\* asyncio.sleep(5)", else straight back to the loop test
AfterSessionError == IF ws_running THEN "sleep" ELSE "while"

\* connect(...) or a subscription send raised
WsConnectRaise ==
    /\ ws_pc = "connecting"
    /\ ws_pc' = AfterSessionError
    /\ session_end' = "ended"
    /\ UNCHANGED <<ws_usage, ws_running, websocket, self_websocket, sock_open, attempts,
                   ws_stop_pc, stop_target, ws_queue, consumer_tasks, last_orderbook_time, mono,
                   n_events, ws_last, accepted, callback_log>>
    /\ wsFrame

\* queue.put_nowait(...) of an event: accepted, or QueueFull and a warning
put_nowait(ev) ==
    IF Len(ws_queue) < WsQueueSize
       THEN /\ ws_queue' = Append(ws_queue, ev)
            /\ accepted' = accepted \cup {ev}
            /\ ws_last' = [ev |-> ev, outcome |-> "queued"]
       ELSE /\ ws_last' = [ev |-> ev, outcome |-> "dropped"]
            /\ UNCHANGED <<ws_queue, accepted>>

\* _notify_trade(trade)
notify_trade(ev) ==
    /\ put_nowait(ev)
    /\ UNCHANGED <<last_orderbook_time, callback_log>>

\* variant: no update is ever too soon
TooSoonNever(t, last) == FALSE

\* "if now - last < interval: return"
TooSoon(t, last) == t - last < SampleInterval

\* _notify_orderbook(orderbook)
notify_orderbook(ev) ==
    IF TooSoon(mono, last_orderbook_time[ev.key])
       THEN /\ ws_last' = [ev |-> ev, outcome |-> "filtered"]
            /\ UNCHANGED <<ws_queue, accepted, last_orderbook_time, callback_log>>
       ELSE /\ last_orderbook_time' = [last_orderbook_time EXCEPT ![ev.key] = mono]
            /\ put_nowait(ev)
            /\ UNCHANGED callback_log

\* who calls the callbacks of a trade in the reader loop of the legacy class:
\* "for callback in self.callbacks: await callback(trade)"
LegacyCaller == "reader"

\* the reader loop of services/market_data_ingestion/websocket_client.py
legacy_dispatch(ev) ==
    /\ callback_log' = callback_log \cup {[id |-> ev.id, cb |-> cb, by |-> LegacyCaller] : cb \in Callbacks}
    /\ ws_last' = [ev |-> ev, outcome |-> "called"]
    /\ UNCHANGED <<ws_queue, accepted, last_orderbook_time>>

\* "async for message in websocket" yields a message: "if not self.running:
\* break" leaves the session (the connection is closed by "async with"),
\* otherwise the message is parsed and handled
WsReceive(t, k) ==
    /\ ws_pc = "reading"
    /\ websocket \in sock_open
    /\ n_events < MaxEvents
    /\ ws_usage = "legacy" => t = "trade"
    /\ t = "other" => k = CHOOSE x \in WsSymbols : TRUE
    /\ n_events' = n_events + 1
    /\ LET ev == [id |-> n_events + 1, type |-> t, key |-> k, at |-> mono] IN
       IF ~ws_running
          THEN /\ ws_pc' = "while"
               /\ sock_open' = sock_open \ {websocket}
               /\ session_end' = "ended"
               /\ ws_last' = [ev |-> ev, outcome |-> "break"]
               /\ UNCHANGED <<ws_queue, accepted, last_orderbook_time, callback_log>>
          ELSE /\ UNCHANGED <<ws_pc, sock_open, session_end>>
               /\ CASE ws_usage = "legacy" -> legacy_dispatch(ev)
                    [] t = "trade" -> notify_trade(ev)
                    [] t = "orderbook" -> notify_orderbook(ev)
                    [] OTHER -> /\ ws_last' = [ev |-> ev, outcome |-> "ignored"]
                                /\ UNCHANGED <<ws_queue, accepted, last_orderbook_time,
                                               callback_log>>
    /\ UNCHANGED <<ws_usage, ws_running, websocket, self_websocket, attempts, ws_stop_pc,
                   stop_target, consumer_tasks, mono>>
    /\ wsFrame

\* where start() goes when "async for" ends without an exception: out of
\* "async with" and the try block, back to the loop test
AfterCleanEnd == "while"

\* the peer closes the connection normally (close code 1000 or 1001): "async
\* for" ends without an exception
WsRemoteClose ==
    /\ ws_pc = "reading"
    /\ websocket \in sock_open
    /\ sock_open' = sock_open \ {websocket}
    /\ ws_pc' = AfterCleanEnd
    /\ session_end' = "ended"
    /\ UNCHANGED <<ws_usage, ws_running, websocket, self_websocket, attempts, ws_stop_pc,
                   stop_target, ws_queue, consumer_tasks, last_orderbook_time, mono, n_events,
                   ws_last, accepted, callback_log>>
    /\ wsFrame

\* the connection fails (ConnectionClosedError, ping timeout): "except Exception"
WsSessionError ==
    /\ ws_pc = "reading"
    /\ websocket \in sock_open
    /\ sock_open' = sock_open \ {websocket}
    /\ ws_pc' = AfterSessionError
    /\ session_end' = "ended"
    /\ UNCHANGED <<ws_usage, ws_running, websocket, self_websocket, attempts, ws_stop_pc,
                   stop_target, ws_queue, consumer_tasks, last_orderbook_time, mono, n_events,
                   ws_last, accepted, callback_log>>
    /\ wsFrame

\* the connection was closed by stop(): "async for" ends without an exception
WsLocalClosed ==
    /\ ws_pc = "reading"
    /\ websocket \notin sock_open
    /\ ws_pc' = AfterCleanEnd
    /\ session_end' = "ended"
    /\ UNCHANGED <<ws_usage, ws_running, websocket, self_websocket, sock_open, attempts,
                   ws_stop_pc, stop_target, ws_queue, consumer_tasks, last_orderbook_time, mono,
                   n_events, ws_last, accepted, callback_log>>
    /\ wsFrame

\* await asyncio.sleep(5) returned
WsSleepReturn ==
    /\ ws_pc = "sleep"
    /\ ws_pc' = "while"
    /\ session_end' = "slept"
    /\ UNCHANGED <<ws_usage, ws_running, websocket, self_websocket, sock_open, attempts,
                   ws_stop_pc, stop_target, ws_queue, consumer_tasks, last_orderbook_time, mono,
                   n_events, ws_last, accepted, callback_log>>
    /\ wsFrame

\* stop() is called by another task while start() is suspended:
\* self.running = False, "if self.websocket: await self.websocket.close()"
\* (the legacy class only clears the flag)
WsStop ==
    /\ ws_stop_pc = "idle"
    /\ ws_pc \in {"connecting", "reading", "sleep"}
    /\ ws_running' = FALSE
    /\ stop_target' = self_websocket
    /\ ws_stop_pc' = IF self_websocket # 0 THEN "close" ELSE "done"
    /\ UNCHANGED <<ws_usage, ws_pc, websocket, self_websocket, sock_open, attempts, session_end,
                   ws_queue, consumer_tasks, last_orderbook_time, mono, n_events, ws_last,
                   accepted, callback_log>>
    /\ wsFrame

\* stop(): await self.websocket.close() returned
WsStopClose ==
    /\ ws_stop_pc = "close"
    /\ sock_open' = sock_open \ {stop_target}
    /\ ws_stop_pc' = "done"
    /\ UNCHANGED <<ws_usage, ws_running, ws_pc, websocket, self_websocket, attempts,
                   session_end, stop_target, ws_queue, consumer_tasks, last_orderbook_time, mono,
                   n_events, ws_last, accepted, callback_log>>
    /\ wsFrame

\* _consume_queue: "msg_type, data = await queue.get()" returned
ConsumerGet(w) ==
    /\ consumer_tasks[w].pc = "get"
    /\ ws_queue # <<>>
    /\ consumer_tasks' = [consumer_tasks EXCEPT ![w] = [pc |-> "call", ev |-> Head(ws_queue), cb |-> 1]]
    /\ ws_queue' = Tail(ws_queue)
    /\ UNCHANGED <<ws_usage, ws_running, ws_pc, websocket, self_websocket, sock_open, attempts,
                   session_end, ws_stop_pc, stop_target, last_orderbook_time, mono, n_events,
                   ws_last, accepted, callback_log>>
    /\ wsFrame

\* _consume_queue: "await callback(data)" returned or raised (the exception is
\* logged); the next callback follows, after the last one queue.task_done()
ConsumerCallback(w) ==
    /\ consumer_tasks[w].pc = "call"
    /\ callback_log' = callback_log \cup
          {[id |-> consumer_tasks[w].ev.id, cb |-> consumer_tasks[w].cb, by |-> "consumer"]}
    /\ consumer_tasks' = [consumer_tasks EXCEPT ![w] =
          IF @.cb < NumCallbacks THEN [@ EXCEPT !.cb = @ + 1] ELSE ConsumerIdle]
    /\ UNCHANGED <<ws_usage, ws_running, ws_pc, websocket, self_websocket, sock_open, attempts,
                   session_end, ws_stop_pc, stop_target, ws_queue, last_orderbook_time, mono,
                   n_events, ws_last, accepted>>
    /\ wsFrame

\* time.monotonic() advances
MonoTick ==
    /\ mono < MaxMono
    /\ mono' = mono + 1
    /\ UNCHANGED <<ws_usage, ws_running, ws_pc, websocket, self_websocket, sock_open, attempts,
                   session_end, ws_stop_pc, stop_target, ws_queue, consumer_tasks,
                   last_orderbook_time, n_events, ws_last, accepted, callback_log>>
    /\ wsFrame

(***************************************************************************)
(* Part VI: the path of a trade of one (exchange, symbol): client queue,   *)
(* consumer workers running StreamProcessor.process_trade, DataValidator,  *)
(* cache queue, cache workers, latest_price key                            *)
(***************************************************************************)

\* values of the fields of a received trade; timestamps and the wall clock
\* are in milliseconds
TradePrices == {0, 100, 120}
TradeQuantities == {0, 1}
TradeTimes == {1000, 1500, 7000}
WallClocks == {1000, 2000}

\* empty slot of a task, and validator.last_prices without the key
NoTrade == 0
\* self._last_orderbook_backup.get(symbol_key) is None
NoBackup == 0
NoLastPrice == [id |-> 0, price |-> 0, timestamp |-> 0]

\* the processor before its first event: nothing handed on, no orderbook seen
BookInit ==
    /\ downstream = {}
    /\ books = <<>>
    /\ last_orderbook_backup = NoBackup

\* the processor and the client after connect() and start_consumer()
TradeInit ==
    /\ trades = <<>>
    /\ tr_queue = <<>>
    /\ tr_lost = {}
    /\ tr_consumer = [c \in 1..1 |-> [pc |-> "get", id |-> NoTrade]]
    /\ last_prices = NoLastPrice
    /\ spike_count = 0
    /\ invalid_count = 0
    /\ verdict = <<>>
    /\ set_queue = <<>>
    /\ set_worker = [w \in 1..1 |-> [pc |-> "get", id |-> NoTrade]]
    /\ latest_price = NoTrade
    /\ wall_now = 1000
    /\ BookInit

\* what the steps of the trade path leave alone
tradeFrame ==
    UNCHANGED <<wqVars, poolVars, svcVars, qryVars, wsVars, indVars, flushVars, kafkaVars,
                books, last_orderbook_backup>>

\* the calls process_trade / process_orderbook made for one event: to the
\* stream client, the object storage, the DB buffer and the cache client
HandedOn(type, id, dests) == {[type |-> type, id |-> id, dest |-> d] : d \in dests}

\* price_change_pct > self.spike_threshold_pct, with
\* price_change_pct = abs((trade.price - last_price) / last_price * 100)
IsSpike(price, last_price) ==
    LET diff == IF price >= last_price THEN price - last_price ELSE last_price - price
    IN  diff * 100 > SpikeThresholdPct * last_price

\* what validate_trade makes of a spike: warning only, (True, None)
SpikeVerdict == "spike"

\* DataValidator.validate_trade(trade): "rejected" stands for (False, error),
\* "ok" and "spike" for (True, None), the latter with the warning
validate_trade(t) ==
    IF t.price <= 0 THEN "rejected"
    ELSE IF t.quantity <= 0 THEN "rejected"
    ELSE IF t.timestamp > wall_now + FutureSkewMs THEN "rejected"
    ELSE IF /\ last_prices.id # 0
            /\ 0 < t.timestamp - last_prices.timestamp
            /\ t.timestamp - last_prices.timestamp < SpikeWindowMs
            /\ IsSpike(t.price, last_prices.price)
         THEN SpikeVerdict
    ELSE "ok"

\* the reader receives a trade: _notify_trade puts it into the client queue
\* or drops it when the queue is full
TradeReceive(p, q, ts) ==
    /\ Len(trades) < MaxTrades
    /\ trades' = Append(trades, [price |-> p, quantity |-> q, timestamp |-> ts])
    /\ verdict' = Append(verdict, "none")
    /\ IF Len(tr_queue) < WsQueueSize
          THEN tr_queue' = Append(tr_queue, Len(trades) + 1) /\ UNCHANGED tr_lost
          ELSE tr_lost' = tr_lost \cup {Len(trades) + 1} /\ UNCHANGED tr_queue
    /\ UNCHANGED <<tr_consumer, last_prices, spike_count, invalid_count, set_queue,
                   set_worker, latest_price, wall_now>>
    /\ UNCHANGED downstream
    /\ tradeFrame

\* a consumer takes a trade and calls process_trade: validate_trade runs, an
\* invalid trade is logged and skipped, a valid one is sent to the stream
\* client and then awaits its upload to the object storage
TradeConsumerGet(c) ==
    /\ tr_consumer[c].pc = "get"
    /\ tr_queue # <<>>
    /\ tr_queue' = Tail(tr_queue)
    /\ LET id == Head(tr_queue)
           t == trades[id]
           v == validate_trade(t)
       IN  /\ verdict' = [verdict EXCEPT ![id] = v]
           /\ IF v = "rejected"
                 THEN /\ invalid_count' = invalid_count + 1
                      /\ UNCHANGED <<tr_consumer, last_prices, spike_count, downstream>>
                 ELSE /\ spike_count' = IF v = "spike" THEN spike_count + 1 ELSE spike_count
                      /\ last_prices' = [id |-> id, price |-> t.price, timestamp |-> t.timestamp]
                      /\ tr_consumer' = [tr_consumer EXCEPT ![c] = [pc |-> "upload", id |-> id]]
                      /\ downstream' = downstream \cup HandedOn("trade", id, {"stream"})
                      /\ UNCHANGED invalid_count
    /\ UNCHANGED <<trades, tr_lost, set_queue, set_worker, latest_price, wall_now>>
    /\ tradeFrame

\* process_trade: the upload returned (or raised and was logged); the trade
\* is buffered for the store and _update_cache calls cache_client.set, whose
\* enqueue_set accepts the value or drops it when the cache queue is full
TradeUpdateCache(c) ==
    /\ tr_consumer[c].pc = "upload"
    /\ IF Len(set_queue) < QueueSize
          THEN set_queue' = Append(set_queue, tr_consumer[c].id) /\ UNCHANGED tr_lost
          ELSE tr_lost' = tr_lost \cup {tr_consumer[c].id} /\ UNCHANGED set_queue
    /\ tr_consumer' = [tr_consumer EXCEPT ![c] = [pc |-> "get", id |-> NoTrade]]
    /\ downstream' = downstream \cup HandedOn("trade", tr_consumer[c].id, {"storage", "db", "cache"})
    /\ UNCHANGED <<trades, tr_queue, last_prices, spike_count, invalid_count, verdict,
                   set_worker, latest_price, wall_now>>
    /\ tradeFrame

\* a cache worker takes a set operation and calls _set_impl
TradeCacheGet(w) ==
    /\ set_worker[w].pc = "get"
    /\ set_queue # <<>>
    /\ set_worker' = [set_worker EXCEPT ![w] = [pc |-> "set", id |-> Head(set_queue)]]
    /\ set_queue' = Tail(set_queue)
    /\ UNCHANGED <<trades, tr_queue, tr_lost, tr_consumer, last_prices, spike_count,
                   invalid_count, verdict, latest_price, wall_now>>
    /\ UNCHANGED downstream
    /\ tradeFrame

\* _set_impl: "await self.client.set(key, value)" returned: the key holds
\* the value of this trade
TradeCacheSetReturn(w) ==
    /\ set_worker[w].pc = "set"
    /\ latest_price' = set_worker[w].id
    /\ set_worker' = [set_worker EXCEPT ![w] = [pc |-> "get", id |-> NoTrade]]
    /\ UNCHANGED <<trades, tr_queue, tr_lost, tr_consumer, last_prices, spike_count,
                   invalid_count, verdict, set_queue, wall_now>>
    /\ UNCHANGED downstream
    /\ tradeFrame

\* _set_impl: the SET raised; the error is logged and nothing is written
TradeCacheSetRaise(w) ==
    /\ set_worker[w].pc = "set"
    /\ tr_lost' = tr_lost \cup {set_worker[w].id}
    /\ set_worker' = [set_worker EXCEPT ![w] = [pc |-> "get", id |-> NoTrade]]
    /\ UNCHANGED <<trades, tr_queue, tr_consumer, last_prices, spike_count, invalid_count,
                   verdict, set_queue, latest_price, wall_now>>
    /\ UNCHANGED downstream
    /\ tradeFrame

\* one level of an orderbook side: (price, quantity)
Level(p, q) == [price |-> p, qty |-> q]

\* the bids or the asks of a received orderbook, best level first
BookSides ==
    { <<>>,
      <<Level(100, 1)>>, <<Level(101, 1)>>, <<Level(102, 1)>>,
      <<Level(0, 1)>>, <<Level(100, 0)>>,
      <<Level(100, 1), Level(101, 1)>>,
      <<Level(101, 1), Level(100, 1)>>,
      <<Level(102, 1), Level(101, 1)>> }
\* orderbook.timestamp, in milliseconds
BookTimes == {1000, 1500, 2000}

\* DataValidator.validate_orderbook(orderbook): "rejected" stands for
\* (False, error), "ok" for (True, None)
validate_orderbook(bids, asks) ==
    LET all == bids \o asks
    IN  IF bids = <<>> \/ asks = <<>> THEN "rejected"
        ELSE IF bids[1].price >= asks[1].price THEN "rejected"
        ELSE IF \E i \in DOMAIN all : all[i].price <= 0 \/ all[i].qty <= 0 THEN "rejected"
        ELSE IF \E i \in 1..(Len(bids) - 1) : bids[i].price < bids[i + 1].price THEN "rejected"
        ELSE IF \E i \in 1..(Len(asks) - 1) : asks[i].price > asks[i + 1].price THEN "rejected"
        ELSE "ok"

\* _should_backup_orderbook: one snapshot per second and symbol
should_backup_orderbook(ts) ==
    last_orderbook_backup = NoBackup \/ ts - last_orderbook_backup >= BackupIntervalMs

\* `if not is_valid: return` with the check left out
SkipsNothing(v) == FALSE

\* `if not is_valid: ... return  # Skip invalid data`
Skips(v) == v = "rejected"

\* a consumer calls process_orderbook for an orderbook taken from the client
\* queue: validate_orderbook runs (counting a rejection), an invalid one is
\* logged and skipped, a valid one goes to the stream client, (sampled) to
\* the object storage, to the DB buffer and to the cache client
process_orderbook(bids, asks, ts) ==
    /\ Len(books) < MaxBooks
    /\ LET id == Len(books) + 1
           v == validate_orderbook(bids, asks)
       IN  /\ books' = Append(books, v)
           /\ invalid_count' = IF v = "rejected" THEN invalid_count + 1 ELSE invalid_count
           /\ IF Skips(v)
                 THEN UNCHANGED <<downstream, last_orderbook_backup>>
                 ELSE /\ downstream' = downstream \cup
                            HandedOn("orderbook", id,
                                     {"stream", "db", "cache"} \cup
                                     (IF should_backup_orderbook(ts) THEN {"storage"} ELSE {}))
                      /\ last_orderbook_backup' =
                            IF should_backup_orderbook(ts) THEN ts ELSE last_orderbook_backup
    /\ UNCHANGED <<trades, tr_queue, tr_lost, tr_consumer, last_prices, spike_count, verdict,
                   set_queue, set_worker, latest_price, wall_now>>
    /\ UNCHANGED <<wqVars, poolVars, svcVars, qryVars, wsVars, indVars, flushVars, kafkaVars>>


(***************************************************************************)
(* Part VII: the passes of IndicatorService over the candle series         *)
(* (src/services/indicator_service/main.py, persistence.py).  A series is  *)
(* one (exchange, symbol, timeframe); a candle's timestamp is its index in *)
(* the list query_candles returns.                                         *)
(*                                                                         *)
(* Both passes call IndicatorCalculator.process_candle_with_history.       *)
(* calculator.py under src/ defines no method of that name (its callers    *)
(* and its unit tests are there), so the call is modelled twice: as the    *)
(* class under src/ answers it (AttributeError, calc_impl = "src") and as  *)
(* spec section 4.6 steps 2-5 and the unit tests describe the method       *)
(* (calc_impl = "spec").                                                   *)
(***************************************************************************)
\* the enabled (exchange, symbol, timeframe) combinations, in loop order
IndSeries == 1..NumSeries
\* lengths of the candle list query_candles returns
CandleCounts == {0, MinCandles - 1, MinCandles, MinCandles + 1}
Passes == {"cyclic", "catchup"}
CalcImpls == {"src", "spec"}
\* outcome of gap handling and of merging the indicators' results
CalcResults == {"gap", "empty", "nonempty"}
\* a series query_candles has not been asked about in this pass
NotQueried == 0 - 1

IndInit ==
    /\ ind_pc = "next"
    /\ ind_series = 0
    /\ ind_candles = [s \in IndSeries |-> NotQueried]
    /\ ind_i = 0
    /\ ind_result = [s \in IndSeries |-> "none"]
    /\ store_inserts = {}
    /\ cache_sets = {}
    /\ ind_errors = {}

IndIdle == ind_pass = "cyclic" /\ calc_impl = "src" /\ IndInit

indFrame ==
    UNCHANGED <<wqVars, poolVars, svcVars, qryVars, wsVars, tradeVars, flushVars, kafkaVars>>

\* min_candles = self.settings.INDICATOR_SERVICE_MIN_CANDLES, read one below
min_candles_off_by_one == MinCandles - 1

\* min_candles = self.settings.INDICATOR_SERVICE_MIN_CANDLES
min_candles == MinCandles

\* historical_candles = candles[max(0, i - 99) : i + 1]: its length
WindowLen(i) == (i + 1) - (IF i - 99 > 0 THEN i - 99 ELSE 0)

\* `if not candles or len(candles) < min_candles: continue` of the cyclic
\* pass, `if len(candles) < min_candles: continue` of the catch-up pass
PassSkips(n) ==
    IF ind_pass = "cyclic" THEN n = 0 \/ n < min_candles ELSE n < min_candles

\* the first candle handed to the calculator: candles[-1] in the cyclic pass,
\* the first i with `not i < (min_candles - 1)` in the catch-up pass
FirstIndex(n) ==
    IF ind_pass = "cyclic" THEN n - 1
    ELSE IF min_candles - 1 > 0 THEN min_candles - 1 ELSE 0

\* len of the list handed to the calculator with candle ind_i
HistoryLen ==
    IF ind_pass = "cyclic" THEN ind_candles[ind_series] ELSE WindowLen(ind_i)

\* the call into the calculator has returned: the cyclic pass moves to the
\* next series, the catch-up pass to the next candle of this one
LoopAdvance ==
    IF ind_pass = "catchup" /\ ind_i + 1 < ind_candles[ind_series]
    THEN ind_pc' = "call" /\ ind_i' = ind_i + 1
    ELSE ind_pc' = "next" /\ ind_i' = ind_i

\* `for timeframe in self.settings.SYNC_TIMEFRAMES: try: ... query_candles(`
IndNextSeries ==
    /\ ind_pc = "next"
    /\ ind_series < NumSeries
    /\ ind_series' = ind_series + 1
    /\ ind_pc' = "query"
    /\ UNCHANGED <<ind_pass, calc_impl, ind_candles, ind_i, ind_result, store_inserts,
                   cache_sets, ind_errors>>
    /\ indFrame

\* the loops over the enabled series are exhausted
IndPassEnd ==
    /\ ind_pc = "next"
    /\ ind_series = NumSeries
    /\ ind_pc' = "done"
    /\ UNCHANGED <<ind_pass, calc_impl, ind_series, ind_candles, ind_i, ind_result,
                   store_inserts, cache_sets, ind_errors>>
    /\ indFrame

\* query_candles returns n candles
IndQueryReturn(n) ==
    /\ ind_pc = "query"
    /\ ind_candles' = [ind_candles EXCEPT ![ind_series] = n]
    /\ IF PassSkips(n)
       THEN ind_pc' = "next" /\ ind_i' = ind_i
       ELSE ind_pc' = "call" /\ ind_i' = FirstIndex(n)
    /\ UNCHANGED <<ind_pass, calc_impl, ind_series, ind_result, store_inserts, cache_sets,
                   ind_errors>>
    /\ indFrame

\* query_candles raises: `except Exception` of the series logs it
IndQueryRaise ==
    /\ ind_pc = "query"
    /\ ind_errors' = ind_errors \cup {[series |-> ind_series, error |-> "query"]}
    /\ ind_pc' = "next"
    /\ UNCHANGED <<ind_pass, calc_impl, ind_series, ind_candles, ind_i, ind_result,
                   store_inserts, cache_sets>>
    /\ indFrame

\* self.calculator.process_candle_with_history(...) on the class of
\* calculator.py: the attribute lookup raises, `except Exception` of the
\* series logs it and the pass moves to the next series
IndCallMissing ==
    /\ ind_pc = "call"
    /\ calc_impl = "src"
    /\ ind_errors' = ind_errors \cup {[series |-> ind_series, error |-> "AttributeError"]}
    /\ ind_pc' = "next"
    /\ UNCHANGED <<ind_pass, calc_impl, ind_series, ind_candles, ind_i, ind_result,
                   store_inserts, cache_sets>>
    /\ indFrame

\* parameters BaseCacheClient.set accepts beside key and value
SetKeywords == {"ttl_seconds"}
\* the keyword _write_cache passes the TTL under
WriteCacheKeyword == "ttl"

\* IndicatorPersistence._write_cache: the call of cache.set and the
\* `except Exception` around it
write_cache(s) ==
    IF WriteCacheKeyword \in SetKeywords
    THEN /\ cache_sets' = cache_sets \cup {[series |-> s, ttl |-> IndicatorTtl]}
         /\ ind_errors' = ind_errors
    ELSE /\ cache_sets' = cache_sets
         /\ ind_errors' = ind_errors \cup {[series |-> s, error |-> "TypeError"]}

\* IndicatorPersistence.save_indicators up to the await of insert_indicators
save_indicators(s, ts, r) ==
    IF r # "nonempty"
    THEN /\ LoopAdvance
         /\ UNCHANGED <<store_inserts, cache_sets, ind_errors>>
    ELSE /\ write_cache(s)
         /\ store_inserts' = store_inserts \cup {[series |-> s, ts |-> ts]}
         /\ ind_pc' = "db"
         /\ ind_i' = ind_i

\* process_candle_with_history(latest_candle, candles) as section 4.6 steps
\* 2-5 describe it: too short a history returns, a gap ratio above the limit
\* returns, an empty merged result returns, anything else is saved
process_candle_with_history(r) ==
    /\ ind_pc = "call"
    /\ calc_impl = "spec"
    /\ IF HistoryLen < min_candles
       THEN /\ LoopAdvance
            /\ UNCHANGED <<ind_result, store_inserts, cache_sets, ind_errors>>
       ELSE /\ ind_result' = [ind_result EXCEPT ![ind_series] = r]
            /\ save_indicators(ind_series, ind_i, r)
    /\ UNCHANGED <<ind_pass, calc_impl, ind_series, ind_candles>>
    /\ indFrame

\* insert_indicators returns: _write_db logs the count
IndInsertReturn ==
    /\ ind_pc = "db"
    /\ LoopAdvance
    /\ UNCHANGED <<ind_pass, calc_impl, ind_series, ind_candles, ind_result, store_inserts,
                   cache_sets, ind_errors>>
    /\ indFrame

\* insert_indicators raises: `except Exception` of _write_db logs it
IndInsertRaise ==
    /\ ind_pc = "db"
    /\ ind_errors' = ind_errors \cup {[series |-> ind_series, error |-> "insert"]}
    /\ LoopAdvance
    /\ UNCHANGED <<ind_pass, calc_impl, ind_series, ind_candles, ind_result, store_inserts,
                   cache_sets>>
    /\ indFrame

(***************************************************************************)
(* Part VIII: StreamProcessor trade buffer and the DB queue it flushes to   *)
(***************************************************************************)

\* prices of the trades that pass validation and are buffered
BufferedPrices == {p \in TradePrices : p > 0}

\* self.trade_buffer = [] in __init__; the DB client connected, its worker in
\* queue.get()
FlushInit ==
    /\ trade_buffer = <<>>
    /\ buffered = 0
    /\ db_envelopes = <<>>
    /\ db_batch = <<>>
    /\ db_taken = <<>>
    /\ db_submitted = <<>>
    /\ flush_dropped = 0
    /\ flush_pc = "open"

flushFrame ==
    UNCHANGED <<wqVars, poolVars, svcVars, qryVars, wsVars, tradeVars, indVars, kafkaVars>>

\* the shutdown sentinel in the DB queue
FlushSentinel == [sentinel |-> TRUE, handed |-> <<>>]

\* ("trades", trades): the envelope holds the list object it was given, which
\* is self.trade_buffer itself (insert_trades and enqueue_trades pass it on
\* uncopied); handed records the rows the list had at the call
Envelope(rows) == [sentinel |-> FALSE, handed |-> rows]

\* the rows an envelope of the queue holds now: those of the list object
EnvelopeRows(env) == trade_buffer

\* _flush_to_timeseries_db on the buffer rows: "if not self.trade_buffer:
\* return"; insert_trades -> enqueue_trades puts the list into the queue, or
\* counts the rows as dropped on QueueFull and returns 0 (the drop window and
\* its log line are those of enqueue_trades in Part I); neither raises, and
\* "self.trade_buffer.clear()" follows with no await in between
flush_to_timeseries_db(rows) ==
    /\ trade_buffer' = <<>>
    /\ IF rows = <<>>
          THEN UNCHANGED <<db_envelopes, flush_dropped>>
          ELSE IF Len(db_envelopes) < DbQueueSize
                  THEN /\ db_envelopes' = Append(db_envelopes, Envelope(rows))
                       /\ UNCHANGED flush_dropped
                  ELSE /\ flush_dropped' = flush_dropped + Len(rows)
                       /\ UNCHANGED db_envelopes

\* process_trade, step 3, for a valid trade: append to the buffer, flush when
\* the buffer has buffer_size rows
buffer_trade(price) ==
    /\ flush_pc = "open"
    /\ buffered < MaxBuffered
    /\ buffered' = buffered + 1
    /\ LET rows == Append(trade_buffer, [id |-> buffered + 1, price |-> price]) IN
       IF Len(rows) >= BufferSize
          THEN flush_to_timeseries_db(rows)
          ELSE /\ trade_buffer' = rows
               /\ UNCHANGED <<db_envelopes, flush_dropped>>
    /\ UNCHANGED <<db_batch, db_taken, db_submitted, flush_pc>>
    /\ flushFrame

\* StreamProcessor.close(): "if self.trade_buffer: await self._flush_to_timeseries_db()"
flush_on_close ==
    /\ flush_pc = "open"
    /\ flush_pc' = "closing"
    /\ flush_to_timeseries_db(trade_buffer)
    /\ UNCHANGED <<buffered, db_batch, db_taken, db_submitted>>
    /\ flushFrame

\* await self.timeseries_db.close(): "await self._queue.put(self._SENTINEL)"
\* returns once the queue has room
flush_put_sentinel ==
    /\ flush_pc = "closing"
    /\ Len(db_envelopes) < DbQueueSize
    /\ db_envelopes' = Append(db_envelopes, FlushSentinel)
    /\ flush_pc' = "closed"
    /\ UNCHANGED <<trade_buffer, buffered, db_batch, db_taken, db_submitted, flush_dropped>>
    /\ flushFrame

\* BaseTimeSeriesDB._worker takes an envelope: batch_trades.extend(items)
\* reads the list as it is now; "if len(batch_trades) >= batch_size:" insert
\* and clear
flush_worker_get ==
    /\ flush_pc # "ended"
    /\ db_envelopes # <<>>
    /\ ~Head(db_envelopes).sentinel
    /\ db_envelopes' = Tail(db_envelopes)
    /\ LET items == EnvelopeRows(Head(db_envelopes))
           batch == db_batch \o items
       IN  /\ db_taken' = Append(db_taken, [handed |-> Head(db_envelopes).handed,
                                            found |-> items])
           /\ IF Len(batch) >= BatchSize
                 THEN /\ db_submitted' = Append(db_submitted, batch)
                      /\ db_batch' = <<>>
                 ELSE /\ db_batch' = batch
                      /\ UNCHANGED db_submitted
    /\ UNCHANGED <<trade_buffer, buffered, flush_dropped, flush_pc>>
    /\ flushFrame

\* the worker takes the sentinel: "if batch_trades:" a last insert; break
flush_worker_exit ==
    /\ flush_pc = "closed"
    /\ db_envelopes # <<>>
    /\ Head(db_envelopes).sentinel
    /\ db_envelopes' = Tail(db_envelopes)
    /\ db_submitted' = IF db_batch # <<>> THEN Append(db_submitted, db_batch) ELSE db_submitted
    /\ flush_pc' = "ended"
    /\ UNCHANGED <<trade_buffer, buffered, db_batch, db_taken, flush_dropped>>
    /\ flushFrame

(***************************************************************************)
(* Part IX: KafkaStreamProducer, its queue, workers and close()             *)
(***************************************************************************)

KafkaWorkers == 1..NumWorkers

\* self._SENTINEL in the queue of record ids
KafkaSentinel == 0

\* no record in the hands of a worker
NoRecord == 0

\* after connect(): the workers wait in queue.get(), "await self.producer.start()" returned
KafkaInit ==
    /\ producer = "started"
    /\ kafka_queue = <<>>
    /\ kafka_worker = [w \in KafkaWorkers |-> "get"]
    /\ kafka_item = [w \in KafkaWorkers |-> NoRecord]
    /\ kafka_pc = "open"
    /\ kafka_put = 0
    /\ kafka_records = 0
    /\ kafka_early = {}
    /\ kafka_sends = {}
    /\ kafka_dropped = 0

kafkaFrame == UNCHANGED <<wqVars, poolVars, svcVars, qryVars, wsVars, tradeVars, indVars, flushVars>>

\* enqueue_record: put_nowait, or QueueFull and the record is counted as
\* dropped (the drop window and its log line are those of Part I)
kafka_enqueue_record ==
    /\ kafka_records < MaxCalls
    /\ kafka_records' = kafka_records + 1
    /\ IF Len(kafka_queue) < QueueSize
          THEN /\ kafka_queue' = Append(kafka_queue, kafka_records + 1)
               /\ kafka_early' = IF kafka_pc = "open" THEN kafka_early \cup {kafka_records + 1}
                                                      ELSE kafka_early
               /\ UNCHANGED kafka_dropped
          ELSE /\ kafka_dropped' = kafka_dropped + 1
               /\ UNCHANGED <<kafka_queue, kafka_early>>
    /\ UNCHANGED <<producer, kafka_worker, kafka_item, kafka_pc, kafka_put, kafka_sends>>
    /\ kafkaFrame

\* _worker: "item = await self._queue.get()"; the sentinel ends the task,
\* anything else goes to _send_impl, which calls self.producer.send(...)
kafka_worker_get(w) ==
    /\ kafka_worker[w] = "get"
    /\ kafka_queue # <<>>
    /\ kafka_queue' = Tail(kafka_queue)
    /\ IF Head(kafka_queue) = KafkaSentinel
          THEN /\ kafka_worker' = [kafka_worker EXCEPT ![w] = "exited"]
               /\ UNCHANGED <<kafka_item, kafka_sends>>
          ELSE /\ kafka_worker' = [kafka_worker EXCEPT ![w] = "send"]
               /\ kafka_item' = [kafka_item EXCEPT ![w] = Head(kafka_queue)]
               /\ kafka_sends' = kafka_sends \cup
                                    {[id |-> Head(kafka_queue), producer |-> producer]}
    /\ UNCHANGED <<producer, kafka_pc, kafka_put, kafka_records, kafka_early, kafka_dropped>>
    /\ kafkaFrame

\* "await self.producer.send(...)" returned, or raised and "except Exception"
\* of _send_impl logged it: task_done(), back to queue.get()
kafka_send_end(w) ==
    /\ kafka_worker[w] = "send"
    /\ kafka_worker' = [kafka_worker EXCEPT ![w] = "get"]
    /\ kafka_item' = [kafka_item EXCEPT ![w] = NoRecord]
    /\ UNCHANGED <<producer, kafka_queue, kafka_pc, kafka_put, kafka_records, kafka_early,
                   kafka_sends, kafka_dropped>>
    /\ kafkaFrame

\* KafkaStreamProducer.close() is called: "if self.producer: await self.producer.stop()"
kafka_close ==
    /\ kafka_pc = "open"
    /\ kafka_pc' = "stop"
    /\ UNCHANGED <<producer, kafka_queue, kafka_worker, kafka_item, kafka_put, kafka_records,
                   kafka_early, kafka_sends, kafka_dropped>>
    /\ kafkaFrame

\* self.producer.stop() returned; "await super().close()" follows
kafka_stop_return ==
    /\ kafka_pc = "stop"
    /\ producer' = "stopped"
    /\ kafka_pc' = "put"
    /\ UNCHANGED <<kafka_queue, kafka_worker, kafka_item, kafka_put, kafka_records, kafka_early,
                   kafka_sends, kafka_dropped>>
    /\ kafkaFrame

\* self.producer.stop() raised: "except Exception" logs, the producer is left
\* in whichever state the failed stop produced; "await super().close()" follows
kafka_stop_raise ==
    /\ kafka_pc = "stop"
    /\ producer' \in {"started", "stopped"}
    /\ kafka_pc' = "put"
    /\ UNCHANGED <<kafka_queue, kafka_worker, kafka_item, kafka_put, kafka_records, kafka_early,
                   kafka_sends, kafka_dropped>>
    /\ kafkaFrame

\* BaseStreamProducer.close(): "await self._queue.put(self._SENTINEL)", once
\* per worker task, each put waiting for room in the queue
kafka_put_sentinel ==
    /\ kafka_pc = "put"
    /\ Len(kafka_queue) < QueueSize
    /\ kafka_queue' = Append(kafka_queue, KafkaSentinel)
    /\ kafka_put' = kafka_put + 1
    /\ kafka_pc' = IF kafka_put + 1 = NumWorkers THEN "wait" ELSE "put"
    /\ UNCHANGED <<producer, kafka_worker, kafka_item, kafka_records, kafka_early, kafka_sends,
                   kafka_dropped>>
    /\ kafkaFrame

\* "await asyncio.wait_for(task, timeout=10.0)" timed out on a worker that has
\* not ended: task.cancel(), "except asyncio.CancelledError: break"
kafka_wait_timeout(w) ==
    /\ kafka_pc = "wait"
    /\ kafka_worker[w] # "exited"
    /\ kafka_worker' = [kafka_worker EXCEPT ![w] = "exited"]
    /\ UNCHANGED <<producer, kafka_queue, kafka_item, kafka_pc, kafka_put, kafka_records,
                   kafka_early, kafka_sends, kafka_dropped>>
    /\ kafkaFrame

\* every worker task has ended: self._worker_tasks.clear(), close() returns
kafka_close_return ==
    /\ kafka_pc = "wait"
    /\ \A w \in KafkaWorkers : kafka_worker[w] = "exited"
    /\ kafka_pc' = "closed"
    /\ UNCHANGED <<producer, kafka_queue, kafka_worker, kafka_item, kafka_put, kafka_records,
                   kafka_early, kafka_sends, kafka_dropped>>
    /\ kafkaFrame

\* the ingestion side at rest
IngestIdle == WsIdle /\ TradeInit /\ IndIdle /\ FlushInit /\ KafkaInit

\* state after connect(): empty queue, all workers waiting in queue.get()
InitQueue ==
    /\ kind \in Kinds
    /\ queue = <<>>
    /\ dropped_count = 0
    /\ drop_rate_window = <<>>
    /\ now = 0
    /\ \E n \in 1..NumWorkers : pc = [w \in 1..n |-> "get"]
    /\ batch_trades = [w \in Workers |-> <<>>]
    /\ handled = {}
    /\ inserted = [i \in 1..MaxDbCalls |-> 0]
    /\ close_pc = "idle"
    /\ sentinels_put = 0
    /\ wait_idx = 0
    /\ got_sentinel = [w \in Workers |-> FALSE]
    /\ cancelled = [w \in Workers |-> FALSE]
    /\ raised = [w \in Workers |-> FALSE]
    /\ insert_failed = FALSE
    /\ n_calls = 0
    /\ last_call = [rows |-> 0, ret |-> 0, puts |-> 0]
    /\ pre_close = {}
    /\ first_drop_at = -1
    /\ drop_times = <<>>
    /\ log_level = "none"
    /\ late_call = FALSE

\* numbers of drops a queue has behind it, all at time 0: around the
\* thresholds of the three queues (60 s times 5, 10 and 50 drops per second)
EarlierDrops == {0, 298, 299, 300, 598, 599, 600, 2998, 2999, 3000}

\* a connected client whose queue has dropped n items before and has since
\* been emptied by its workers
InitAfterDrops ==
    /\ kind \in Kinds
    /\ queue = <<>>
    /\ now = 0
    /\ \E n \in EarlierDrops :
          /\ dropped_count = n
          /\ drop_rate_window = [i \in 1..n |-> 0]
          /\ drop_times = [i \in 1..n |-> 0]
          /\ first_drop_at = IF n = 0 THEN -1 ELSE 0
    /\ \E n \in 1..NumWorkers : pc = [w \in 1..n |-> "get"]
    /\ batch_trades = [w \in Workers |-> <<>>]
    /\ handled = {}
    /\ inserted = [i \in 1..MaxDbCalls |-> 0]
    /\ close_pc = "idle"
    /\ sentinels_put = 0
    /\ wait_idx = 0
    /\ got_sentinel = [w \in Workers |-> FALSE]
    /\ cancelled = [w \in Workers |-> FALSE]
    /\ raised = [w \in Workers |-> FALSE]
    /\ insert_failed = FALSE
    /\ n_calls = 0
    /\ last_call = [rows |-> 0, ret |-> 0, puts |-> 0]
    /\ pre_close = {}
    /\ late_call = FALSE
    /\ log_level = "none"

\* the queue of a connected client; its pool, the services and the candle
\* tables are at rest
InitWQ ==
    /\ InitQueue
    /\ PoolInit
    /\ pool_size = PoolSize
    /\ svc = "sync"
    /\ SvcInit
    /\ QueryInit
    /\ IngestIdle

NextWQ ==
    \/ enqueue_record
    \/ enqueue_set
    \/ enqueue_trades
    \/ \E w \in Workers : StreamWorkerGet(w)
    \/ \E w \in Workers : StreamSendReturn(w)
    \/ \E w \in Workers : StreamSendRaise(w)
    \/ \E w \in Workers : CacheWorkerGet(w)
    \/ \E w \in Workers : CacheSetReturn(w)
    \/ \E w \in Workers : CacheSetRaise(w)
    \/ \E w \in Workers : DbWorkerGet(w)
    \/ \E w \in Workers : DbFlushReturn(w)
    \/ \E w \in Workers : DbFlushRaise(w)
    \/ \E w \in Workers : DbSentinelFlushReturn(w)
    \/ \E w \in Workers : DbSentinelFlushRaise(w)
    \/ \E w \in Workers : DbCancelFlushReturn(w)
    \/ \E w \in Workers : DbCancelFlushRaise(w)
    \/ CloseCall
    \/ ClosePutSentinel
    \/ CloseJoin
    \/ CloseRaise
    \/ CloseTimeout

SpecWQ == InitWQ /\ [][NextWQ]_vars

\* enqueue calls on a queue with a history of drops, its workers stalled
InitDropLog ==
    /\ InitAfterDrops
    /\ PoolInit
    /\ pool_size = PoolSize
    /\ svc = "sync"
    /\ SvcInit
    /\ QueryInit
    /\ IngestIdle

NextDropLog ==
    \/ enqueue_record
    \/ enqueue_set
    \/ enqueue_trades

SpecDropLog == InitDropLog /\ [][NextDropLog]_vars

\* the steps the event loop takes whenever they are possible: a worker whose
\* queue.get() can return, and close() whenever it can go on (its timeout
\* included). A handler may never return and nobody has to call enqueue.
Scheduled ==
    \/ \E w \in Workers : StreamWorkerGet(w)
    \/ \E w \in Workers : CacheWorkerGet(w)
    \/ \E w \in Workers : DbWorkerGet(w)
    \/ ClosePutSentinel
    \/ CloseJoin
    \/ CloseRaise
    \/ CloseTimeout

FairSpecWQ == SpecWQ /\ WF_vars(Scheduled)

\* the DB queue of ClickHouseClient, whose _insert_trades_impl returns 0 when
\* the store fails
InitDbStore == InitWQ /\ kind = "db"

NextDbStore ==
    \/ enqueue_trades
    \/ \E w \in Workers : DbWorkerGet(w)
    \/ \E w \in Workers : DbFlushReturn(w)
    \/ \E w \in Workers : DbFlushStoreError(w)
    \/ \E w \in Workers : DbFlushRaise(w)
    \/ \E w \in Workers : DbSentinelFlushReturn(w)
    \/ \E w \in Workers : DbSentinelFlushRaise(w)
    \/ \E w \in Workers : DbCancelFlushReturn(w)
    \/ \E w \in Workers : DbCancelFlushRaise(w)
    \/ CloseCall
    \/ ClosePutSentinel
    \/ CloseJoin
    \/ CloseRaise
    \/ CloseTimeout

SpecDbStore == InitDbStore /\ [][NextDbStore]_vars

\* the pool of a connected ClickHouseClient whose queue and workers are at rest
InitPool ==
    /\ InitQueue
    /\ kind = "db"
    /\ Len(pc) = NumWorkers
    /\ PoolInit
    /\ svc = "sync"
    /\ SvcInit
    /\ QueryInit
    /\ IngestIdle

NextPool ==
    \/ \E c \in Callers : StartOp(c)
    \/ \E c \in Callers : Acquire(c)
    \/ \E c \in Callers : ExecuteReturn(c)
    \/ \E c \in Callers : ExecuteRaise(c)
    \/ \E c \in Callers : RecreateReturn(c)
    \/ \E c \in Callers : RecreateRaise(c)

SpecPool == InitPool /\ [][NextPool]_vars

\* the client with store operations running while close() is called: the
\* queue is empty, so close() only has the workers take their sentinels
NextPoolClose ==
    \/ \E c \in Callers : StartOp(c)
    \/ \E c \in Callers : Acquire(c)
    \/ \E c \in Callers : ExecuteReturn(c)
    \/ \E c \in Callers : ExecuteRaise(c)
    \/ \E c \in Callers : RecreateReturn(c)
    \/ \E c \in Callers : RecreateRaise(c)
    \/ CloseCall
    \/ ClosePutSentinel
    \/ \E w \in Workers : DbWorkerGet(w)
    \/ CloseJoin
    \/ CloseTimeout
    \/ PoolDrainOne
    \/ PoolDrainEnd

SpecPoolClose == InitPool /\ [][NextPoolClose]_vars

\* a service whose start() has just been called; its store is at rest
InitSvc ==
    /\ InitQueue
    /\ kind = "db"
    /\ Len(pc) = NumWorkers
    /\ PoolInit
    /\ pool_size = PoolSize
    /\ svc \in {"sync", "indicator"}
    /\ SvcInit
    /\ QueryInit
    /\ IngestIdle

NextSvc ==
    \/ SvcConnectReturn
    \/ SvcConnectRaise
    \/ \E e \in Exchanges : ExCreateReturn(e)
    \/ \E e \in Exchanges : ExCreateRaise(e)
    \/ \E e \in Exchanges : ExFetchReturn(e)
    \/ \E e \in Exchanges : ExFetchRaise(e)
    \/ \E e \in Exchanges : ExInsertReturn(e)
    \/ \E e \in Exchanges : ExInsertRaise(e)
    \/ \E e \in Exchanges : ExCloseReturn(e)
    \/ \E e \in Exchanges : ExCloseRaise(e)
    \/ BackfillReturn
    \/ BackfillRaise
    \/ CatchUpReturn
    \/ CatchUpRaise
    \/ CycleStart
    \/ LoopExit
    \/ CycleReturn
    \/ CycleRaise
    \/ IndicatorCycleEnd
    \/ SleepReturn
    \/ FinallyStop
    \/ SignalHandler
    \/ StopCall
    \/ StopClose
    \/ DetachedEnds

SpecSvc == InitSvc /\ [][NextSvc]_vars

\* a connected store whose tables are empty
InitQuery == InitWQ /\ kind = "db" /\ Len(pc) = NumWorkers

NextQuery ==
    \/ ClockAdvance
    \/ InsertLatestCandle
    \/ query_candles

SpecQuery == InitQuery /\ [][NextQuery]_vars

\* the stores and the services at rest beside a stream client
besideWs ==
    /\ InitQueue
    /\ kind = "stream"
    /\ Len(pc) = NumWorkers
    /\ PoolInit
    /\ pool_size = PoolSize
    /\ svc = "sync"
    /\ SvcInit
    /\ QueryInit
    /\ TradeInit
    /\ IndIdle
    /\ FlushInit
    /\ KafkaInit

\* the clients of the ingestion side at rest beside the trade path
besideTrade ==
    /\ InitQueue
    /\ kind = "cache"
    /\ Len(pc) = NumWorkers
    /\ PoolInit
    /\ pool_size = PoolSize
    /\ svc = "sync"
    /\ SvcInit
    /\ QueryInit
    /\ WsIdle
    /\ IndIdle
    /\ FlushInit
    /\ KafkaInit

\* a stream client that is about to be started, in any of its uses
InitWs == besideWs /\ ws_usage \in WsUsages /\ WsInit

\* one session of a stream client: the messages it receives and its consumers
NextWs ==
    \/ start_consumer
    \/ WsStart
    \/ WsLoopConnect
    \/ WsConnectReturn
    \/ \E t \in MsgTypes, k \in WsSymbols : WsReceive(t, k)
    \/ \E w \in DOMAIN consumer_tasks : ConsumerGet(w)
    \/ \E w \in DOMAIN consumer_tasks : ConsumerCallback(w)
    \/ MonoTick

SpecWs == InitWs /\ [][NextWs]_vars

\* a stream client run without start_consumer(), as main() runs it
InitWsReader == besideWs /\ ws_usage \in {"ingestion", "legacy"} /\ WsInit

\* the reader loop of a stream client through its sessions, and stop()
NextWsReader ==
    \/ WsStart
    \/ WsLoopConnect
    \/ WsLoopExit
    \/ WsConnectReturn
    \/ WsConnectRaise
    \/ \E t \in MsgTypes, k \in WsSymbols : WsReceive(t, k)
    \/ WsRemoteClose
    \/ WsSessionError
    \/ WsLocalClosed
    \/ WsSleepReturn
    \/ WsStop
    \/ WsStopClose

SpecWsReader == InitWsReader /\ [][NextWsReader]_vars

\* what the event loop and the network are bound to do: start() goes on
\* whenever it can, a connection attempt ends one way or the other, a sleep
\* ends, close() returns and a closed connection ends the read. The peer is
\* free never to send a message and never to close.
WsScheduled ==
    \/ WsLoopConnect
    \/ WsLoopExit
    \/ WsConnectReturn
    \/ WsLocalClosed
    \/ WsSleepReturn
    \/ WsStopClose

FairSpecWsReader == SpecWsReader /\ WF_vars(WsScheduled)

\* the trade path with its consumers and cache workers started; the wall
\* clock reads one of two values
InitTrade ==
    /\ besideTrade
    /\ trades = <<>>
    /\ tr_queue = <<>>
    /\ tr_lost = {}
    /\ \E n \in 1..WsConsumerWorkers : tr_consumer = [c \in 1..n |-> [pc |-> "get", id |-> NoTrade]]
    /\ last_prices = NoLastPrice
    /\ spike_count = 0
    /\ invalid_count = 0
    /\ verdict = <<>>
    /\ set_queue = <<>>
    /\ \E n \in 1..NumWorkers : set_worker = [w \in 1..n |-> [pc |-> "get", id |-> NoTrade]]
    /\ latest_price = NoTrade
    /\ wall_now \in WallClocks
    /\ BookInit

NextTrade ==
    \/ \E p \in TradePrices, q \in TradeQuantities, ts \in TradeTimes : TradeReceive(p, q, ts)
    \/ \E c \in DOMAIN tr_consumer : TradeConsumerGet(c)
    \/ \E c \in DOMAIN tr_consumer : TradeUpdateCache(c)
    \/ \E w \in DOMAIN set_worker : TradeCacheGet(w)
    \/ \E w \in DOMAIN set_worker : TradeCacheSetReturn(w)
    \/ \E w \in DOMAIN set_worker : TradeCacheSetRaise(w)

SpecTrade == InitTrade /\ [][NextTrade]_vars

\* the processor with one consumer task and one cache worker, fed trades and
\* orderbooks
InitValidate ==
    /\ InitTrade
    /\ Len(tr_consumer) = 1
    /\ Len(set_worker) = 1

NextValidate ==
    \/ \E p \in TradePrices, q \in TradeQuantities, ts \in TradeTimes : TradeReceive(p, q, ts)
    \/ \E c \in DOMAIN tr_consumer : TradeConsumerGet(c)
    \/ \E c \in DOMAIN tr_consumer : TradeUpdateCache(c)
    \/ \E w \in DOMAIN set_worker : TradeCacheGet(w)
    \/ \E w \in DOMAIN set_worker : TradeCacheSetReturn(w)
    \/ \E w \in DOMAIN set_worker : TradeCacheSetRaise(w)
    \/ \E bids \in BookSides, asks \in BookSides, ts \in BookTimes : process_orderbook(bids, asks, ts)

SpecValidate == InitValidate /\ [][NextValidate]_vars

\* the stores, the services and the stream side at rest beside an indicator pass
besideInd ==
    /\ InitQueue
    /\ kind = "cache"
    /\ Len(pc) = NumWorkers
    /\ PoolInit
    /\ pool_size = PoolSize
    /\ svc = "indicator"
    /\ SvcInit
    /\ QueryInit
    /\ WsIdle
    /\ TradeInit
    /\ FlushInit
    /\ KafkaInit

\* one pass of the indicator service, cyclic or catch-up
InitInd == besideInd /\ ind_pass \in Passes /\ calc_impl \in CalcImpls /\ IndInit

NextInd ==
    \/ IndNextSeries
    \/ IndPassEnd
    \/ \E n \in CandleCounts : IndQueryReturn(n)
    \/ IndQueryRaise
    \/ IndCallMissing
    \/ \E r \in CalcResults : process_candle_with_history(r)
    \/ IndInsertReturn
    \/ IndInsertRaise

SpecInd == InitInd /\ [][NextInd]_vars

\* a StreamProcessor buffering valid trades, the DB client it flushes to and
\* one worker of that client; everything else at rest
InitFlush ==
    /\ InitQueue
    /\ kind = "db"
    /\ Len(pc) = NumWorkers
    /\ PoolInit
    /\ pool_size = PoolSize
    /\ svc = "sync"
    /\ SvcInit
    /\ QueryInit
    /\ IngestIdle

NextFlush ==
    \/ \E price \in BufferedPrices : buffer_trade(price)
    \/ flush_on_close
    \/ flush_put_sentinel
    \/ flush_worker_get
    \/ flush_worker_exit

SpecFlush == InitFlush /\ [][NextFlush]_vars

\* a connected KafkaStreamProducer, its callers, its workers and its close();
\* everything else at rest
InitKafka ==
    /\ InitQueue
    /\ kind = "stream"
    /\ Len(pc) = NumWorkers
    /\ PoolInit
    /\ pool_size = PoolSize
    /\ svc = "sync"
    /\ SvcInit
    /\ QueryInit
    /\ IngestIdle

NextKafka ==
    \/ kafka_enqueue_record
    \/ \E w \in KafkaWorkers : kafka_worker_get(w)
    \/ \E w \in KafkaWorkers : kafka_send_end(w)
    \/ kafka_close
    \/ kafka_stop_return
    \/ kafka_stop_raise
    \/ kafka_put_sentinel
    \/ \E w \in KafkaWorkers : kafka_wait_timeout(w)
    \/ kafka_close_return

SpecKafka == InitKafka /\ [][NextKafka]_vars

(***************************************************************************)
(* Properties                                                              *)
(***************************************************************************)

\* a step that is one enqueue call
EnqueueStep == n_calls' = n_calls + 1

\* the value enqueue returns for a dropped item
DroppedResult == CASE kind = "stream" -> "dropped"
                   [] kind = "cache" -> FALSE
                   [] kind = "db" -> 0

\* the last enqueue call put its item into the queue
Queued(call) == CASE kind = "stream" -> call.ret = "queued"
                  [] kind = "cache" -> call.ret = TRUE
                  [] kind = "db" -> call.rows > 0 /\ call.ret = call.rows

\* C1 (as amended): an enqueue call made while the queue holds its maximum
\* number of items returns the dropped result, leaves the queue unchanged and
\* adds one to the drop counter of the stream and cache queues, and the number
\* of trades of the dropped envelope to the drop counter of the DB queue.
C1_DropAtCapacity ==
    [][(EnqueueStep /\ Len(queue) = Capacity) =>
          /\ last_call'.ret = DroppedResult
          /\ queue' = queue
          /\ dropped_count' = dropped_count + (IF kind = "db" THEN last_call'.rows ELSE 1)]_vars

\* C1 witness: a two-trade envelope has just been dropped by the full DB queue
C1_Witness ==
    /\ kind = "db"
    /\ n_calls > 0
    /\ last_call.rows = 2
    /\ last_call.puts = 1
    /\ last_call.ret = 0
    /\ Len(queue) = Capacity
    /\ dropped_count >= 2

\* C1 (original): on every queue, the DB queue included, a dropped enqueue adds
\* exactly one to the drop counter whatever the number of trades in the envelope.
C1_DropCountsOne ==
    [][(EnqueueStep /\ Len(queue) = Capacity /\ last_call'.rows > 0) =>
          /\ last_call'.ret = DroppedResult
          /\ queue' = queue
          /\ dropped_count' = dropped_count + 1]_vars

\* no worker has taken an item and close() has not been called
NoWorkerProgress == handled = {} /\ close_pc = "idle"

\* C2 (as amended): on the stream queue of capacity K with no worker making
\* progress, call number i returns queued iff i <= K; after n > K calls
\* dropped_count is n-K, and the drop-rate window holds at most n-K timestamps,
\* exactly n-K when the last drop is less than 60 s after the first one.
C2_BurstAccounting ==
    (kind = "stream" /\ NoWorkerProgress /\ n_calls > 0) =>
        /\ last_call.ret = (IF n_calls <= Capacity THEN "queued" ELSE "dropped")
        /\ Len(queue) = (IF n_calls <= Capacity THEN n_calls ELSE Capacity)
        /\ n_calls > Capacity =>
              /\ dropped_count = n_calls - Capacity
              /\ Len(drop_rate_window) <= n_calls - Capacity
              /\ (now - first_drop_at < DropWindowSeconds =>
                     Len(drop_rate_window) = n_calls - Capacity)

\* C2 witness: K + 2 calls were made with no worker progress, two were dropped
\* and both timestamps are in the window
C2_Witness ==
    /\ kind = "stream"
    /\ NoWorkerProgress
    /\ n_calls = Capacity + 2
    /\ dropped_count = 2
    /\ Len(drop_rate_window) = 2

\* C2 (original): after n > K calls with no worker progress the drop-rate window
\* holds n-K timestamps.
C2_WindowHoldsAllDrops ==
    (kind = "stream" /\ NoWorkerProgress /\ n_calls > Capacity) =>
        /\ last_call.ret = "dropped"
        /\ dropped_count = n_calls - Capacity
        /\ Len(drop_rate_window) = n_calls - Capacity

\* close() cancelled no worker
NoWorkerCancelled == \A w \in Workers : ~cancelled[w]

\* C3 (as amended): when close() returns without having cancelled a worker,
\* every item queued before close() was called has been taken by a worker and
\* passed to the handler.
C3_DrainedUnlessCancelled ==
    (close_pc = "returned" /\ NoWorkerCancelled) => pre_close \subseteq handled

\* C3 witness: close() returned with two workers, none cancelled, after at least
\* two items had been queued
C3_Witness ==
    /\ close_pc = "returned"
    /\ NoWorkerCancelled
    /\ Len(pc) = 2
    /\ Cardinality(pre_close) >= 2

\* C3 (original): when close() returns, every item queued before close() was
\* called has been passed to the handler.
C3_DrainedBeforeCloseReturns ==
    close_pc = "returned" => pre_close \subseteq handled

\* C4: after it has dequeued a sentinel a worker never waits on the queue again.
C4_NoGetAfterSentinel ==
    \A w \in Workers : got_sentinel[w] => pc[w] # "get"

\* C5: once close() has been called it returns (or ends), whatever the handlers
\* do and however full the queue is, unless the producer goes on enqueueing
\* after close() was called.
C5_CloseReturns ==
    (close_pc = "put") ~> (close_pc \in {"returned", "raised"} \/ late_call)

\* C6: a worker task ends only after a sentinel or a cancel by close(), and the
\* step in which a handler raises in a worker that was not cancelled takes that
\* worker back to waiting on the queue, as does every step that ends a handler
\* call of a worker that is not being cancelled.
C6_WorkerSurvivesHandlerFault ==
    [][\A w \in Workers :
          /\ (pc[w] \notin {"exited", "failed"} /\ pc'[w] \in {"exited", "failed"})
                => (got_sentinel'[w] \/ cancelled'[w])
          /\ (~raised[w] /\ raised'[w] /\ ~cancelled[w]) => pc'[w] = "get"
          /\ (pc[w] \in {"handler", "flush"} /\ pc'[w] # pc[w] /\ ~cancelled'[w])
                => pc'[w] = "get"]_vars

\* C6 witness: a worker whose handler raised earlier is inside the handler again
\* with a later item
C6_Witness ==
    \E w \in Workers : raised[w] /\ ~cancelled[w] /\ ~got_sentinel[w] /\ pc[w] = "handler"

\* some enqueue call
EnqueueAny == enqueue_record \/ enqueue_set \/ enqueue_trades

\* the bounds of the model allow one more enqueue call
CallsLeft == n_calls < (IF kind = "db" THEN MaxDbCalls ELSE MaxCalls)

\* C7 (as amended): an enqueue call makes one insert attempt (none for
\* enqueue_trades with an empty list, which returns 0 and changes nothing), is
\* possible in every state of the workers and of close(), and for a non-empty
\* item puts the item at the tail of the queue and returns the queued result
\* iff the queue had free capacity, leaving the queue unchanged otherwise.
C7_SingleAttempt ==
    /\ [](CallsLeft => ENABLED EnqueueAny)
    /\ [][EnqueueStep =>
             IF last_call'.rows = 0
                THEN kind = "db" /\ last_call'.puts = 0 /\ last_call'.ret = 0 /\ queue' = queue
                ELSE /\ last_call'.puts = 1
                     /\ Queued(last_call') <=> Len(queue) < Capacity
                     /\ IF Queued(last_call')
                           THEN queue' = Append(queue, [id |-> n_calls + 1,
                                                        rows |-> last_call'.rows])
                           ELSE queue' = queue]_vars

\* C7 witness: an enqueue call returned dropped while every worker was inside
\* its handler
C7_Witness ==
    /\ kind = "stream"
    /\ n_calls > 0
    /\ last_call.ret = "dropped"
    /\ \A w \in Workers : pc[w] = "handler"
    /\ Len(pc) = 2

\* C7 (original): every enqueue call makes exactly one insert attempt and
\* queues its item iff the queue had free capacity.
C7_ExactlyOneAttempt ==
    [][EnqueueStep =>
          /\ last_call'.puts = 1
          /\ Queued(last_call') <=> Len(queue) < Capacity]_vars

\* C8: every connection in the pool is connected and no operation has raised
\* on it.
C8_NoPoisonedInPool ==
    \A i \in 1..Len(pool) : ~pool[i].failed /\ pool[i].open

\* C8 witness: an operation failed and its replacement connection is in the pool
C8_Witness ==
    /\ Len(pool) = PoolSize
    /\ \E i \in 1..Len(pool) : pool[i].origin = "replacement"

\* connections the pool owns: idle in the pool or held by an operation
Owned == Len(pool) + Cardinality({c \in Callers : op_conn[c] # NoConn})

\* C9: the step in which an operation has failed and the re-creation fails too
\* takes exactly one connection from those the pool owns; every other step
\* leaves their number unchanged, so it never increases.
C9_PoolShrinksByOne ==
    [][IF critical_logs' = critical_logs + 1
          THEN Owned' = Owned - 1
          ELSE Owned' = Owned]_vars

\* C9 witness: one re-creation has failed and the pool owns one connection less
C9_Witness ==
    /\ critical_logs = 1
    /\ Owned = PoolSize - 1
    /\ \E c \in Callers : op_result[c] \in {"zero", "error"}

\* C10: once the pool owns no connection, no caller is waiting to acquire one
\* (such a wait never ends, since the number of owned connections never grows).
C10_NoWaitOnEmptyPool ==
    Owned = 0 => \A c \in Callers : op_pc[c] # "acquire"

\* a step in which an insert made by DB worker w comes back as failed in the store
StoreInsertFails(w) ==
    /\ pc[w] = "flush"
    /\ pc'[w] # pc[w]
    /\ ~insert_failed
    /\ insert_failed'

\* C13: when a batched trade insert fails in the store, the worker goes on to
\* the next queue item and the rows of the failed batch are added to the DB
\* drop counter.
C13_LostBatchCounted ==
    [][\A w \in Workers :
          StoreInsertFails(w) =>
              /\ pc'[w] = "get"
              /\ dropped_count' = dropped_count + SumRows(batch_trades[w])]_vars

\* C14: when close() of the DB queue has returned without cancelling a worker,
\* every envelope queued before close() was called has been carried by at
\* least one _insert_trades_impl call.
C14_AllRowsPassedToInsert ==
    (kind = "db" /\ close_pc = "returned" /\ NoWorkerCancelled) =>
        \A i \in pre_close : inserted[i] >= 1

\* C14 witness: close() returned, nobody was cancelled, and each of two workers
\* held a batch smaller than batch_size that its sentinel made it insert
C14_Witness ==
    /\ kind = "db"
    /\ close_pc = "returned"
    /\ NoWorkerCancelled
    /\ Len(pc) = 2
    /\ \A w \in Workers : /\ batch_trades[w] # <<>>
                          /\ SumRows(batch_trades[w]) < BatchSize
                          /\ \A k \in 1..Len(batch_trades[w]) :
                                inserted[batch_trades[w][k].id] = 1

\* C11: the connections idle in the pool plus those held by operations never
\* exceed pool_size; a caller holds a connection exactly while it is between
\* its get() and the end of its operation; and when no operation is running
\* and no re-creation has failed the pool holds pool_size connections again.
C11_AcquireUseRelease ==
    /\ Owned <= pool_size
    /\ \A c \in Callers : (op_conn[c] # NoConn) <=> (op_pc[c] \in {"execute", "recreate"})
    /\ ((\A c \in Callers : op_pc[c] = "idle") /\ critical_logs = 0)
          => Len(pool) = pool_size

\* C11 witness: more callers than connections; one caller holds the only
\* connection (a replacement made after an earlier failure) while another
\* caller waits in get()
C11_Witness ==
    /\ pool_size < NumCallers
    /\ pool = <<>>
    /\ critical_logs = 0
    /\ \E c, d \in Callers :
          /\ op_pc[c] = "execute"
          /\ op_conn[c].origin = "replacement"
          /\ op_pc[d] = "acquire"

\* the operations whose store errors go to the caller
SurfacingOps == {"insert_candles", "insert_indicators", "query_candles", "query"}

\* C12: when insert_candles, insert_indicators, query_candles or query ends
\* after the store raised, it ends with an exception for its caller, whether
\* the re-creation of the connection succeeded or failed.
C12_ErrorsSurface ==
    [][\A c \in Callers :
          (op_pc[c] = "recreate" /\ op_pc'[c] = "idle" /\ op_kind[c] \in SurfacingOps)
              => op_result'[c] = "error"]_vars

\* C12 witness: each of the four operations can be seen to have ended with an
\* exception; here query_candles, with the pool back at full size
C12_Witness ==
    \E c \in Callers :
        /\ op_kind[c] = "query_candles"
        /\ op_pc[c] = "idle"
        /\ op_result[c] = "error"
        /\ Len(pool) = pool_size

\* C15: when ClickHouseClient.close() has returned and no store operation was
\* called after close() had been called, the pool is empty and no connection
\* is connected.
C15_AllDisconnectedAfterClose ==
    (drain_pc = "returned" /\ ~late_op) => (pool = <<>> /\ connected = 0)

\* C16: every candle returned by query_candles for timeframe tf at time now
\* has a timestamp before the start of the tf-interval that contains now.
C16_OpenIntervalExcluded ==
    q_timeframe # "none" =>
        \A i \in 1..Len(q_result) : q_result[i] < StartOfInterval(q_timeframe, q_at)

\* C17: while a sync cycle is in progress (exchange tasks of the cycle still
\* have fetches and inserts to make) the store is connected, also after
\* Stop() has been requested.
C17_CycleHasUsableStore ==
    (svc = "sync" /\ svc_pc = "cycle" /\ ExRunning # {}) => db_state = "connected"

\* C18: in a sync cycle, an exchange task that has ended with a failure has
\* gone through every (symbol, timeframe) of its exchange: no failure keeps
\* another (exchange, symbol, timeframe) from its fetch-and-insert.
C18_FailureIsolated ==
    (svc = "sync" /\ cycles >= 1) =>
        \A e \in Exchanges :
            ex[e].pc = "failed" =>
                (ex[e].sym = Len(SymbolList) /\ ex[e].tf = Len(SyncTimeframes))

\* C19: start() of the sync service leaves its loop only because Stop() was
\* requested (or because the store could not be connected before the
\* backfill): never because of an error inside the backfill or inside a cycle.
C19_LoopEndsOnlyOnStop ==
    (svc = "sync" /\ svc_pc \in {"stopping", "done"}) =>
        exit_cause \in {"stop", "connect_error"}

\* C20: the step that ends a cycle sets sleep_time to max(0, interval -
\* elapsed) from the elapsed time of that cycle alone; a cycle that took at
\* least the interval goes straight back to the loop test, any other cycle
\* is followed by a sleep of the remainder, whatever earlier cycles took.
C20_SleepsRemainder ==
    [][(svc_pc = "cycle" /\ svc_pc' # "cycle") =>
          /\ sleep_time' = (IF elapsed' >= SyncInterval THEN 0 ELSE SyncInterval - elapsed')
          /\ (elapsed' >= SyncInterval) => svc_pc' = "loop"
          /\ (elapsed' < SyncInterval) => svc_pc' = "sleep"]_vars

\* C20 witness: the first cycle took at least two intervals and the second
\* cycle has been started without a sleep
C20_Witness ==
    /\ svc_pc = "cycle"
    /\ cycles = 2
    /\ elapsed >= 2 * SyncInterval
    /\ sleep_time = 0


\* fetch_latest_klines calls outstanding on the client of exchange task e: the
\* task awaits each call before it makes the next
FetchesInFlight(e) == IF ex[e].pc = "fetch" THEN 1 ELSE 0

\* C21: in the backfill and in every sync cycle an exchange task creates one
\* REST client and never a second, uses it for all its symbols one fetch at
\* a time, and has called close() on it exactly once when the task has ended
\* (not before); the tasks of different exchanges run side by side.
C21_OneClientPerExchangePass ==
    svc = "sync" =>
        \A e \in Exchanges :
            /\ ex[e].made <= 1
            /\ ex[e].closes <= ex[e].made
            /\ FetchesInFlight(e) <= ex[e].made
            /\ ex[e].pc \in {"fetch", "insert", "close"} => (ex[e].made = 1 /\ ex[e].closes = 0)
            /\ ex[e].pc = "done" => (ex[e].made = 1 /\ ex[e].closes = 1)
            /\ ex[e].pc = "failed" => ex[e].closes = ex[e].made

\* C21 witness: in a sync cycle one exchange task has closed its client after
\* its last symbol while the task of another exchange is fetching its second
\* symbol on the client it created
C21_Witness ==
    /\ svc = "sync"
    /\ svc_pc = "cycle"
    /\ \E e, f \in Exchanges :
          /\ ex[e].pc = "done" /\ ex[e].closes = 1
          /\ ex[f].pc = "fetch" /\ ex[f].sym = 2 /\ ex[f].made = 1

\* C22: every callback invocation is made by a consumer task that took the
\* event from the queue of the client; the reader loop makes none.
C22_CallbacksOnlyFromConsumers ==
    \A c \in callback_log : c.by = "consumer"

\* C23: in the ingestion service, whenever the reader loop of a client has
\* accepted an event into the queue, consumer tasks of that client exist to
\* take it.
C23_ConsumersRunWithReader ==
    (ws_usage = "ingestion" /\ accepted # {}) => consumer_tasks # <<>>

\* orderbook updates accepted into the queue
AcceptedOrderbooks == {e \in accepted : e.type = "orderbook"}

\* C24: two orderbook updates of one symbol that both entered the queue were
\* received at least SampleInterval apart, and the step that filters an
\* update leaves the queue, the sample times and the consumers as they were.
C24_OneOrderbookPerInterval ==
    /\ [](\A a, b \in AcceptedOrderbooks :
            (a.key = b.key /\ a.id < b.id) => b.at - a.at >= SampleInterval)
    /\ [][(n_events' # n_events /\ ws_last'.outcome = "filtered") =>
            UNCHANGED <<ws_queue, accepted, last_orderbook_time, consumer_tasks,
                        callback_log>>]_vars

\* C24 witness: two orderbook updates of one symbol have entered the queue
C24_Witness ==
    \E a, b \in AcceptedOrderbooks : a.key = b.key /\ a.id < b.id

\* C25: start() enters a connection attempt after a session has ended only
\* when it has slept since that end.
C25_SleepBeforeReconnect ==
    [][(ws_pc = "while" /\ ws_pc' = "connecting") => session_end # "ended"]_vars

\* C26: once stop() has been called, start() returns, and no connection
\* attempt is begun after the call.
C26_StartReturnsAfterStop ==
    /\ (ws_stop_pc # "idle") ~> (ws_pc = "returned")
    /\ [][(ws_stop_pc # "idle" /\ ws_pc # "connecting") => ws_pc' # "connecting"]_vars

\* a trade that passes the three field checks of validate_trade
SoundTrade(t) == t.price > 0 /\ t.quantity > 0 /\ t.timestamp <= wall_now + FutureSkewMs

\* every queue of the trade path is empty and every task waits for work
TradePathDrained ==
    /\ tr_queue = <<>>
    /\ set_queue = <<>>
    /\ \A c \in DOMAIN tr_consumer : tr_consumer[c].pc = "get"
    /\ \A w \in DOMAIN set_worker : set_worker[w].pc = "get"

\* the part of C27 about the validator alone: a trade that passes the field
\* checks is never rejected, and a spike is counted and goes downstream
SoundTradeNeverRejected ==
    \A id \in DOMAIN trades : SoundTrade(trades[id]) => verdict[id] # "rejected"

\* C27: a trade that passes the field checks is never rejected, whatever its
\* price change; and when the trade validated last was a spike, then once the
\* path has drained with nothing dropped the latest_price key holds the
\* price of that trade.
C27_SpikeReachesCache ==
    /\ SoundTradeNeverRejected
    /\ (/\ TradePathDrained
        /\ tr_lost = {}
        /\ last_prices.id # 0
        /\ verdict[last_prices.id] = "spike")
          => (latest_price # NoTrade /\ trades[latest_price].price = last_prices.price)

\* the trades that validate_trade accepted
AcceptedTrades == {id \in DOMAIN trades : verdict[id] \in {"ok", "spike"}}

\* the accepted trade that was received last
LastAccepted == CHOOSE id \in AcceptedTrades : \A other \in AcceptedTrades : other <= id

\* C30: once the path of a symbol has drained, with no trade dropped at a
\* full queue and no SET failed, the latest_price key holds the value of the
\* accepted trade that was received last.
C30_LastReceivedTradeWins ==
    (TradePathDrained /\ tr_lost = {} /\ AcceptedTrades # {}) =>
        (latest_price # NoTrade /\ trades[latest_price] = trades[LastAccepted])


\* the indicator writes a pass has issued for series s
InsertsOf(s) == {x \in store_inserts : x.series = s}
CacheSetsOf(s) == {x \in cache_sets : x.series = s}

\* C28: a series whose candle history has fewer than min_candles candles gets
\* no store insert and no cache write in that pass, cyclic or catch-up
C28_NoWritesBelowMinCandles ==
    \A s \in IndSeries :
        (ind_candles[s] # NotQueried /\ ind_candles[s] < MinCandles)
            => (InsertsOf(s) = {} /\ CacheSetsOf(s) = {})

\* a finished catch-up pass that skipped a series one candle short of
\* min_candles and issued an insert for another series
C28_Witness ==
    /\ ind_pc = "done"
    /\ ind_pass = "catchup"
    /\ \E s, t \in IndSeries :
          /\ ind_candles[s] = MinCandles - 1
          /\ InsertsOf(s) = {}
          /\ InsertsOf(t) # {}

\* C29: a series with at least min_candles candles whose merged indicator
\* result is non-empty gets both an InsertIndicators call at the latest
\* candle's timestamp and a cache set with the 60-second TTL that the cache
\* queue accepted
C29_InsertAndCacheSet ==
    \A s \in IndSeries :
        (ind_candles[s] >= MinCandles /\ ind_result[s] = "nonempty")
            => /\ \E x \in InsertsOf(s) :
                     ind_pass = "cyclic" => x.ts = ind_candles[s] - 1
               /\ [series |-> s, ttl |-> IndicatorTtl] \in cache_sets


\* the trades and the orderbooks validation rejected
RejectedTrades == {i \in DOMAIN verdict : verdict[i] = "rejected"}
RejectedBooks == {i \in DOMAIN books : books[i] = "rejected"}

\* C31: an event rejected by validation is handed to no destination (stream,
\* storage backup, DB buffer, cache) and raises the validator's invalid
\* counter by exactly one
C31_RejectedEventHasNoEffect ==
    /\ \A i \in RejectedTrades :
          /\ \A x \in downstream : ~(x.type = "trade" /\ x.id = i)
          /\ \A k \in DOMAIN set_queue : set_queue[k] # i
          /\ \A w \in DOMAIN set_worker : set_worker[w].id # i
          /\ \A c \in DOMAIN tr_consumer : tr_consumer[c].id # i
          /\ latest_price # i
    /\ \A i \in RejectedBooks : \A x \in downstream : ~(x.type = "orderbook" /\ x.id = i)
    /\ invalid_count = Cardinality(RejectedTrades) + Cardinality(RejectedBooks)

\* all trades and orderbooks are through, one of each was rejected and one
\* of each went on to the cache
C31_Witness ==
    /\ RejectedTrades # {}
    /\ RejectedBooks # {}
    /\ invalid_count = 2
    /\ tr_queue = <<>>
    /\ \A c \in DOMAIN tr_consumer : tr_consumer[c].pc = "get"
    /\ \E x \in downstream : x.type = "trade" /\ x.dest = "cache"
    /\ \E x \in downstream : x.type = "orderbook" /\ x.dest = "cache"


\* C32: a DB worker inserts only once its accumulated rows have reached
\* batch_size, on the sentinel or when cancelled, and a size-triggered flush
\* empties the accumulator: a worker that waits on the queue holds fewer
\* than batch_size rows
C32_WaitingWorkerBelowBatchSize ==
    kind = "db" =>
        \A w \in Workers : pc[w] = "get" => SumRows(batch_trades[w]) < BatchSize


\* the drops of the last 60 seconds before the last drop, that drop included
DropsInWindow == SelectSeq(drop_times, LAMBDA x : now - 60 < x /\ x <= now)

\* C33: after a dropped enqueue at time t (now holds t until the next drop)
\* the drop-rate window holds exactly the timestamps of the drops made in
\* (t - 60 s, t]: nothing older, and none of them missing
C33_WindowIsLastSixtySeconds ==
    drop_times # <<>> => drop_rate_window = DropsInWindow

\* a drop whose trim removed an older timestamp and kept a newer one
C33_Witness ==
    /\ last_call.puts = 1
    /\ drop_rate_window # <<>>
    /\ Len(drop_rate_window) < Len(drop_times)
    /\ drop_rate_window = DropsInWindow


\* the last enqueue call dropped its item
DropWasLast ==
    /\ n_calls > 0
    /\ CASE kind = "stream" -> last_call.ret = "dropped"
         [] kind = "cache" -> last_call.ret = FALSE
         [] kind = "db" -> last_call.rows > 0 /\ last_call.ret = 0

\* C34 as amended: with rate = (drops in the 60-second window) / 60, a drop
\* is logged as an error when the rate is above 10/s on the stream queue or
\* above 5/s on the DB queue and as a warning otherwise; on the cache queue
\* a warning is logged when the rate is above 50/s, nothing otherwise, and
\* never an error
C34_LevelAboveThreshold ==
    DropWasLast =>
        LET n == Len(drop_rate_window)
        IN  CASE kind = "stream" -> log_level = (IF n > 10 * 60 THEN "error" ELSE "warning")
              [] kind = "db" -> log_level = (IF n > 5 * 60 THEN "error" ELSE "warning")
              [] kind = "cache" -> log_level = (IF n > 50 * 60 THEN "warning" ELSE "none")

\* a drop on the stream queue that brings the rate to 10/s exactly
C34_Witness ==
    /\ DropWasLast
    /\ kind = "stream"
    /\ Len(drop_rate_window) = 10 * 60
    /\ log_level = "warning"

\* C34: the boundaries are inclusive: a rate >= 10/s on the stream queue or
\* >= 5/s on the DB queue is logged as an error and a lower one as a warning;
\* on the cache queue nothing is logged below 50/s, a warning at or above it
C34_LevelAtOrAboveThreshold ==
    DropWasLast =>
        LET n == Len(drop_rate_window)
        IN  CASE kind = "stream" -> log_level = (IF n >= 10 * 60 THEN "error" ELSE "warning")
              [] kind = "db" -> log_level = (IF n >= 5 * 60 THEN "error" ELSE "warning")
              [] kind = "cache" -> log_level = (IF n >= 50 * 60 THEN "warning" ELSE "none")

\* total of one counter over the exchange tasks of a pass, as
\* "sum(r[0] for r in results)" / "sum(r[1] for r in results)" compute it
RECURSIVE TotalOf(_, _)
TotalOf(field, es) ==
    IF es = {} THEN 0
    ELSE LET e == CHOOSE x \in es : TRUE
         IN  (CASE field = "successes" -> ex[e].successes
                [] field = "failures" -> ex[e].failures
                [] OTHER -> ex[e].errs) + TotalOf(field, es \ {e})

\* asyncio.gather of a pass has every result: the totals are logged
PassReported ==
    /\ svc = "sync"
    /\ svc_pc \in {"backfill", "cycle"}
    /\ \A e \in Exchanges : ex[e].pc = "done"

\* C35: when a sync or backfill pass reports its totals, the failure total is
\* the number of symbol syncs of the pass in which a fetch or an insert raised,
\* and the success total is the number of the other symbol syncs.
C35_FailuresAreErroredSymbolSyncs ==
    PassReported =>
        /\ TotalOf("failures", Exchanges) = TotalOf("errs", Exchanges)
        /\ TotalOf("successes", Exchanges) =
               Cardinality(Exchanges) * Len(SymbolList) - TotalOf("errs", Exchanges)

\* sync_all_exchanges() or initial_backfill() has returned or raised: start()
\* is between two passes, or past its loop
BetweenPasses == svc = "sync" /\ svc_pc \in {"loop", "sleep", "stopping", "done"}

\* C36: sync passes never overlap: once a pass has returned or raised, none of
\* the exchange tasks it started is still running, and no exchange task of an
\* earlier pass runs beside the tasks of the present one.
C36_PassesNeverOverlap ==
    /\ BetweenPasses => ExRunning = {}
    /\ svc = "sync" => detached = 0

\* C37: no trade envelope is carried by more than one call of
\* _insert_trades_impl: a DB worker never submits the same accumulated rows to
\* the store insert twice, also when Close() cancels it during a batch insert.
C37_RowsSubmittedOnce ==
    kind = "db" => \A i \in DOMAIN inserted : inserted[i] <= 1

\* C38: the rows handed to enqueue_trades are the rows the DB worker gets:
\* an envelope in the queue still holds the rows it was queued with, and every
\* envelope the worker took held them when it was taken.
C38_EnvelopeKeepsItsRows ==
    /\ \A k \in 1..Len(db_envelopes) :
          ~db_envelopes[k].sentinel => EnvelopeRows(db_envelopes[k]) = db_envelopes[k].handed
    /\ \A k \in 1..Len(db_taken) : db_taken[k].found = db_taken[k].handed

\* self._last_orderbook_time.get(symbol_key, 0.0) of a key never sampled
NoSampleTime == 0

\* C39: the last-sample time of a key is the time of an orderbook update of
\* that key that was placed in the client queue: an update dropped on a full
\* queue does not start a sample interval.
C39_SampleTimeIsOfQueuedUpdate ==
    \A k \in WsSymbols :
        last_orderbook_time[k] # NoSampleTime =>
            \E ev \in accepted :
                ev.type = "orderbook" /\ ev.key = k /\ ev.at = last_orderbook_time[k]

\* C40: every record queued before close() of the Kafka stream producer is
\* handed to a producer that is still started, and the producer is stopped
\* only when every worker task has ended.
C40_SendsBeforeProducerStops ==
    /\ \A s \in kafka_sends : s.id \in kafka_early => s.producer = "started"
    /\ producer = "stopped" => \A w \in KafkaWorkers : kafka_worker[w] = "exited"

====
